---- MODULE Spec2Model ----
(***************************************************************************)
(* Circuit breaker of the "Level 1 - Communication and Discovery" package  *)
(* (src/packages/circuit-breaker/index.ts): SingleMethodCircuitBreaker,    *)
(* CircuitBreakerClassWrapper and createCircuitBreakerMethod.              *)
(*                                                                         *)
(* Time is the value Date.now() returns, counted in model units from the   *)
(* construction of the breakers.  A protected call is two steps, as in the *)
(* code: the synchronous prefix of executeWithCircuitBreaker up to the     *)
(* await of the original method, and the continuation that runs when the   *)
(* original method resolves or rejects.  Other calls and the clock may     *)
(* move between the two.                                                   *)
(***************************************************************************)
EXTENDS Integers, Naturals, Sequences, FiniteSets, Bags, TLC

\* ------------------------------------------------------------------ bounds
\* The clock stops at MaxTime; at most MaxPending calls await their original
\* method at the same time.
MaxTime == 3
MaxPending == 2

\* ------------------------------------------------------------------ inputs
\* The argument list a caller passes to a protected operation.
Args == {<<"id">>}

\* Configurations a breaker is constructed with, in model time units.
\* With one unit = 5000 ms, [3, 2, 1] is defaultConfiguration (3, 10000 ms,
\* 5000 ms).  The two others have the threshold 2 and the shapes of
\* protectedFetchUsers (window = reset) and protectedFetchOrders
\* (window > reset).
Configurations ==
    { [maximumFailuresAllowed |-> 2, timeWindowInMilliseconds |-> 2,
       resetTimeoutInMilliseconds |-> 2],
      [maximumFailuresAllowed |-> 2, timeWindowInMilliseconds |-> 3,
       resetTimeoutInMilliseconds |-> 1],
      [maximumFailuresAllowed |-> 3, timeWindowInMilliseconds |-> 2,
       resetTimeoutInMilliseconds |-> 1] }

\* Methods of the wrapped class that have an entry in methodConfigurations.
ClassMethods == {"fetchData", "fetchMore"}

\* Functions wrapped one by one with createCircuitBreakerMethod.
WrappedFunctions == {"fetchUsersFromService", "fetchOrdersFromService"}

\* The message of the error defaultFallback throws.
ServiceUnavailable == "Service unavailable and no fallback method configured"

VARIABLES
    now,                    \* Date.now()
    configuration,          \* breaker -> its CircuitBreakerConfig
    fallbackMethodToCall,   \* breaker -> "fallbackMethod" | "defaultFallback"
    breakers,               \* breaker -> the private fields of the instance
    pending,                \* bag of calls awaiting originalMethodToExecute
    returned,               \* how the latest finished call ended
    observed,               \* per breaker: what a caller has seen happen
    latestFailures,         \* per watched breaker: when its latest failed
                            \* calls were made
    registryNow,            \* Date.now() of the registry process, in ms
    services,               \* the registry's Map: name -> (id -> instance)
    registrants,            \* the processes that talk to the registry
    handled,                \* the latest request and the response it got
    kept,                   \* id -> what its process registered and last sent
    clientNow,              \* Date.now() of a discovery client's process, in ms
    options,                \* the client's options
    serviceCache,           \* the client's Map: name -> cache entry
    fetching,               \* bag of getServiceUrl calls awaiting _fetchServices
    resolved,               \* how the latest finished getServiceUrl call ended
    currentService,         \* the client's registration, <<>> for null
    heartbeatTimer,         \* the client's timer handle, <<>> for null
    isRegistered,           \* the client's flag
    timers,                 \* bag of the intervals setInterval keeps firing
    requests,               \* bag of register, heartbeat and delete requests
                            \* awaiting the registry
    settled,                \* how the latest finished register, unregister
                            \* or _sendHeartbeat call ended
    position,               \* where main() and start() of the orchestrator are
    attempts,               \* attempts of waitForServiceDiscovery
    delay,                  \* delay of waitForServiceDiscovery, in ms
    isReady,                \* what waitForServiceDiscovery returned
    processes,              \* this.processes of the orchestrator
    discoveryServer,        \* what the spawned discovery server is doing
    probes,                 \* how the readiness probes ended, in order
    killed                  \* the children shutdown sent SIGTERM

breakerVars == <<now, configuration, fallbackMethodToCall, breakers, pending,
                 returned, observed, latestFailures>>

registryVars == <<registryNow, services, registrants, handled, kept>>

\* The registration side of the client.
registrationVars == <<currentService, heartbeatTimer, isRegistered, timers,
                      requests, settled>>

clientVars == <<clientNow, options, serviceCache, fetching, resolved,
                registrationVars>>

\* The orchestrator that spawns the services.
orchestratorVars == <<position, attempts, delay, isReady, processes,
                      discoveryServer, probes, killed>>

\* Everything outside the circuit breaker's process.
discoveryVars == <<registryVars, clientVars, orchestratorVars>>

\* The orchestrator is not part of the run.
OrchestratorAbsent ==
    /\ position = "absent"
    /\ attempts = 0
    /\ delay = 0
    /\ isReady = "pending"
    /\ processes = <<>>
    /\ discoveryServer = "absent"
    /\ probes = <<>>
    /\ killed = <<>>

vars == <<breakerVars, discoveryVars>>

\* No request was handled since the clock last moved.  found is the store an
\* accepted register found.
NothingHandled ==
    [request |-> [method |-> "", name |-> "", ip |-> "", port |-> 0,
                  heartbeatInterval |-> <<>>],
     status |-> 0, body |-> <<>>, found |-> <<>>]

\* No getServiceUrl call finished since the clock last moved.
NothingResolved ==
    [serviceName |-> "", via |-> "nothing", kind |-> "value", value |-> ""]

\* No register, unregister or _sendHeartbeat call finished since the clock
\* last moved.
NothingSettled == [operation |-> "nothing", kind |-> "value", value |-> ""]

\* The registration fields as their declarations initialise them, with no
\* interval running and no request on its way.
NeverRegistered ==
    /\ currentService = <<>>
    /\ heartbeatTimer = <<>>
    /\ isRegistered = FALSE
    /\ timers = EmptyBag
    /\ requests = EmptyBag
    /\ settled = NothingSettled

\* No discovery client is part of the run.
ClientAbsent ==
    /\ clientNow = 0
    /\ options = <<>>
    /\ serviceCache = <<>>
    /\ fetching = EmptyBag
    /\ resolved = NothingResolved
    /\ NeverRegistered

\* The registry process is not part of the run.
RegistryAbsent ==
    /\ registryNow = 0
    /\ services = <<>>
    /\ registrants = {}
    /\ handled = NothingHandled
    /\ kept = <<>>

\* ------------------------------------------------ SingleMethodCircuitBreaker
\* The fields as the constructor leaves them.
NewBreaker ==
    [isCircuitCurrentlyOpen |-> FALSE,
     failureTimestampsWithinWindow |-> <<>>,
     nextAllowedAttemptTime |-> 0]

\* Mutant: the threshold is compared with > instead of >=.
shouldOpenCircuit_OffByOne(self, config) ==
    /\ ~self.isCircuitCurrentlyOpen
    /\ Len(self.failureTimestampsWithinWindow) > config.maximumFailuresAllowed

shouldOpenCircuit(self, config) ==
    /\ ~self.isCircuitCurrentlyOpen
    /\ Len(self.failureTimestampsWithinWindow) >= config.maximumFailuresAllowed

\* Mutant: recovery is attempted one time unit before the reset time.
shouldAttemptRecovery_TooEarly(self, currentTimestamp) ==
    /\ self.isCircuitCurrentlyOpen
    /\ currentTimestamp + 1 >= self.nextAllowedAttemptTime

shouldAttemptRecovery(self, currentTimestamp) ==
    /\ self.isCircuitCurrentlyOpen
    /\ currentTimestamp >= self.nextAllowedAttemptTime

\* Mutant: the reset time is computed from the window, not the reset timeout.
openCircuitAndSetResetTime_UsesWindow(self, config, currentTimestamp) ==
    [self EXCEPT !.isCircuitCurrentlyOpen = TRUE,
                 !.nextAllowedAttemptTime =
                     currentTimestamp + config.timeWindowInMilliseconds]

openCircuitAndSetResetTime(self, config, currentTimestamp) ==
    [self EXCEPT !.isCircuitCurrentlyOpen = TRUE,
                 !.nextAllowedAttemptTime =
                     currentTimestamp + config.resetTimeoutInMilliseconds]

\* Mutant: the recovery attempt leaves the circuit open.
setCircuitToHalfOpen_StaysOpen(self) ==
    self

setCircuitToHalfOpen(self) ==
    [self EXCEPT !.isCircuitCurrentlyOpen = FALSE]

\* Mutant: the failure history is kept.
closeCircuit_KeepsHistory(self) ==
    self

closeCircuit(self) ==
    [self EXCEPT !.failureTimestampsWithinWindow = <<>>]

\* Mutant: nothing is removed.
removeOldFailureRecords_KeepsAll(self, config, currentTimestamp) ==
    self

removeOldFailureRecords(self, config, currentTimestamp) ==
    LET timeWindowCutoff == currentTimestamp - config.timeWindowInMilliseconds
        keep(timestamp) == timestamp > timeWindowCutoff
    IN  [self EXCEPT !.failureTimestampsWithinWindow = SelectSeq(@, keep)]

handleSuccessfulExecution(self) ==
    closeCircuit(self)

\* Mutant: the failure is not recorded.
handleFailedExecution_Forgets(self, currentTimestamp) ==
    self

handleFailedExecution(self, currentTimestamp) ==
    [self EXCEPT !.failureTimestampsWithinWindow = Append(@, currentTimestamp)]

getCurrentStatus(b) ==
    [methodName |-> b,
     isCircuitOpen |-> breakers[b].isCircuitCurrentlyOpen,
     currentFailureCount |-> Len(breakers[b].failureTimestampsWithinWindow),
     maximumFailuresAllowed |-> configuration[b].maximumFailuresAllowed,
     timeWindowInMilliseconds |-> configuration[b].timeWindowInMilliseconds]

\* What the original method returns for these arguments, and what a call of
\* the breaker's fallback does with them: the configured fallback returns a
\* value computed from the arguments, defaultFallback throws.
OriginalResult(methodArguments) ==
    [kind |-> "value", value |-> <<"original", methodArguments>>]

FallbackResult(b, methodArguments) ==
    IF fallbackMethodToCall[b] = "defaultFallback"
    THEN [kind |-> "error", value |-> <<ServiceUnavailable>>]
    ELSE [kind |-> "value", value |-> <<"fallback", methodArguments>>]

\* Mutant: the catch branch throws executionError again.
CatchResult_Rethrows(b, methodArguments) ==
    [kind |-> "error", value |-> <<"executionError">>]

\* What the catch branch hands to the caller (lines 51-55): the fallback's
\* result, whatever executionError was.
CatchResult(b, methodArguments) ==
    FallbackResult(b, methodArguments)

\* The breaker after the statements before the open check (lines 25-38).
AfterPruneAndOpen(self, config, currentTimestamp) ==
    LET pruned == removeOldFailureRecords(self, config, currentTimestamp)
    IN  IF shouldOpenCircuit(pruned, config)
        THEN openCircuitAndSetResetTime(pruned, config, currentTimestamp)
        ELSE pruned

AfterRecoveryCheck(self, config, currentTimestamp) ==
    LET checked == AfterPruneAndOpen(self, config, currentTimestamp)
    IN  IF shouldAttemptRecovery(checked, currentTimestamp)
        THEN setCircuitToHalfOpen(checked)
        ELSE checked

\* The call is the one that setCircuitToHalfOpen lets through.
IsTrial(self, config, currentTimestamp) ==
    shouldAttemptRecovery(AfterPruneAndOpen(self, config, currentTimestamp),
                          currentTimestamp)

PendingOn(b) == {c \in BagToSet(pending) : c.breaker = b}

NothingReturned ==
    [breaker |-> "", methodArguments |-> <<>>, via |-> "nothing",
     trial |-> FALSE, outcome |-> [kind |-> "value", value |-> <<>>]]

NoObservation == [failedCalls |-> <<>>, failedTrialAt |-> -1]

\* The times of the latest failed calls, latest first and at most n of them,
\* after a call made at time t failed.
WithFailure(latest, t, n) ==
    LET k == Cardinality({i \in DOMAIN latest : latest[i] >= t})
        merged == SubSeq(latest, 1, k) \o <<t>>
                      \o SubSeq(latest, k + 1, Len(latest))
    IN  SubSeq(merged, 1, IF Len(merged) < n THEN Len(merged) ELSE n)

\* executeWithCircuitBreaker up to its first return or its await, as far as
\* the breaker goes: what the original method does in the same run is the
\* caller's to add.
executeWithCircuitBreakerBody(b, originalMethodToExecute, methodArguments) ==
    LET currentTimestamp == now
        self == AfterRecoveryCheck(breakers[b], configuration[b], currentTimestamp)
    IN  /\ breakers' = [breakers EXCEPT ![b] = self]
        /\ IF self.isCircuitCurrentlyOpen
           THEN /\ returned' = [breaker |-> b, methodArguments |-> methodArguments,
                                via |-> "circuit open", trial |-> FALSE,
                                outcome |-> FallbackResult(b, methodArguments)]
                /\ UNCHANGED pending
           ELSE /\ BagCardinality(pending) < MaxPending
                /\ pending' = pending (+) SetToBag(
                       {[breaker |-> b,
                         originalMethodToExecute |-> originalMethodToExecute,
                         methodArguments |-> methodArguments,
                         currentTimestamp |-> currentTimestamp,
                         trial |-> IsTrial(breakers[b], configuration[b],
                                           currentTimestamp)]})
                /\ UNCHANGED returned
        /\ UNCHANGED <<now, configuration, fallbackMethodToCall, observed,
                       latestFailures>>

\* executeWithCircuitBreaker up to its first return or its await, with an
\* original method that leaves the discovery client alone.
executeWithCircuitBreaker(b, originalMethodToExecute, methodArguments) ==
    /\ executeWithCircuitBreakerBody(b, originalMethodToExecute, methodArguments)
    /\ UNCHANGED discoveryVars

\* The try branch after the await: the original method resolved.
OriginalMethodResolves(c) ==
    /\ c \in BagToSet(pending)
    /\ pending' = pending (-) SetToBag({c})
    /\ breakers' = [breakers EXCEPT ![c.breaker] = handleSuccessfulExecution(@)]
    /\ returned' = [breaker |-> c.breaker, methodArguments |-> c.methodArguments,
                    via |-> "resolved", trial |-> c.trial,
                    outcome |-> OriginalResult(c.methodArguments)]
    /\ observed' = [observed EXCEPT ![c.breaker].failedCalls = <<>>]
    /\ UNCHANGED <<now, configuration, fallbackMethodToCall, latestFailures>>
    /\ UNCHANGED discoveryVars

\* The catch branch, as far as the breaker goes.
OriginalMethodRejectsBody(c) ==
    /\ c \in BagToSet(pending)
    /\ pending' = pending (-) SetToBag({c})
    /\ breakers' = [breakers EXCEPT ![c.breaker] =
                        handleFailedExecution(@, c.currentTimestamp)]
    /\ returned' = [breaker |-> c.breaker, methodArguments |-> c.methodArguments,
                    via |-> "rejected", trial |-> c.trial,
                    outcome |-> CatchResult(c.breaker, c.methodArguments)]
    /\ observed' = [observed EXCEPT ![c.breaker] =
                        [failedCalls |-> Append(@.failedCalls, c.currentTimestamp),
                         failedTrialAt |-> IF c.trial THEN c.currentTimestamp
                                           ELSE @.failedTrialAt]]
    /\ latestFailures' = [b \in DOMAIN latestFailures |->
          IF b = c.breaker
          THEN WithFailure(latestFailures[b], c.currentTimestamp,
                           configuration[b].maximumFailuresAllowed)
          ELSE latestFailures[b]]
    /\ UNCHANGED <<now, configuration, fallbackMethodToCall>>

\* The catch branch: the original method threw or rejected.
OriginalMethodRejects(c) ==
    /\ OriginalMethodRejectsBody(c)
    /\ UNCHANGED discoveryVars

\* ------------------------------------------------------------- the wrappers
\* Mutant: every method is run under the breaker of one method.
methodCircuitBreakers_Shared(methodName) == "fetchData"

\* CircuitBreakerClassWrapper: the breaker the proxy runs a method under.
methodCircuitBreakers(methodName) == methodName

\* createCircuitBreakerMethod: the breaker the returned closure captured.
circuitBreaker(originalMethod) == originalMethod

ProxiedMethodCall(methodName, methodArguments) ==
    /\ methodName \in DOMAIN breakers
    /\ executeWithCircuitBreaker(methodCircuitBreakers(methodName), methodName,
                                 methodArguments)

ProtectedFunctionCall(originalMethod, methodArguments) ==
    /\ originalMethod \in DOMAIN breakers
    /\ executeWithCircuitBreaker(circuitBreaker(originalMethod), originalMethod,
                                 methodArguments)

\* ------------------------------------------------------------------- clock
\* Date.now() moves on.  What was returned at the earlier instant and the
\* observations that can no longer matter at the new one are dropped.
StillInWindow(b, failedCalls, time) ==
    LET recent(t) == t > time - configuration[b].timeWindowInMilliseconds
    IN  SelectSeq(failedCalls, recent)

Tick ==
    /\ now < MaxTime
    /\ now' = now + 1
    /\ returned' = NothingReturned
    /\ observed' = [b \in DOMAIN observed |->
          [failedCalls |-> StillInWindow(b, observed[b].failedCalls, now + 1),
           failedTrialAt |->
               IF now + 1 < observed[b].failedTrialAt
                              + configuration[b].resetTimeoutInMilliseconds
               THEN observed[b].failedTrialAt ELSE -1]]
    /\ latestFailures' = [b \in DOMAIN latestFailures |->
          StillInWindow(b, latestFailures[b], now + 1)]
    /\ UNCHANGED <<configuration, fallbackMethodToCall, breakers, pending>>
    /\ UNCHANGED discoveryVars

\* ------------------------------------------------------------ specification
\* What the constructors leave behind for a set of protected operations.
ConstructedBreakers(protected) ==
    /\ now = 0
    /\ configuration \in [protected -> Configurations]
    /\ fallbackMethodToCall \in
           [protected -> {"fallbackMethod"} \cup
               (IF protected \subseteq WrappedFunctions
                THEN {"defaultFallback"} ELSE {})]
    /\ breakers = [b \in protected |-> NewBreaker]
    /\ observed = [b \in protected |-> NoObservation]
    /\ pending = EmptyBag
    /\ returned = NothingReturned

\* The protected operations of a program without registry and client.
Constructed(protected) ==
    /\ ConstructedBreakers(protected)
    /\ OrchestratorAbsent
    /\ latestFailures = <<>>
    /\ RegistryAbsent
    /\ ClientAbsent

\* One protected operation: a class with one configured method, or one
\* function wrapped by createCircuitBreakerMethod with or without a fallback.
Init ==
    \E operation \in {"fetchData", "fetchUsersFromService"} :
        Constructed({operation})

Next ==
    \/ Tick
    \/ \E m \in ClassMethods, a \in Args : ProxiedMethodCall(m, a)
    \/ \E f \in WrappedFunctions, a \in Args : ProtectedFunctionCall(f, a)
    \/ \E c \in BagToSet(pending) : OriginalMethodResolves(c)
    \/ \E c \in BagToSet(pending) : OriginalMethodRejects(c)

Spec == Init /\ [][Next]_vars

\* The same program with the calls of each operation made one at a time: a
\* call starts only when no earlier call of that operation still awaits its
\* original method.
NextSequential ==
    \/ Tick
    \/ \E m \in ClassMethods, a \in Args :
          /\ m \in DOMAIN breakers
          /\ PendingOn(m) = {}
          /\ ProxiedMethodCall(m, a)
    \/ \E f \in WrappedFunctions, a \in Args :
          /\ f \in DOMAIN breakers
          /\ PendingOn(f) = {}
          /\ ProtectedFunctionCall(f, a)
    \/ \E c \in BagToSet(pending) : OriginalMethodResolves(c)
    \/ \E c \in BagToSet(pending) : OriginalMethodRejects(c)

SpecSequential == Init /\ [][NextSequential]_vars

\* The same program with its breakers watched: every failed call is noted in
\* latestFailures, whatever the breaker itself keeps of it.
InitWatched ==
    \E operation \in {"fetchData", "fetchUsersFromService"} :
        /\ ConstructedBreakers({operation})
        /\ latestFailures = [b \in {operation} |-> <<>>]
        /\ OrchestratorAbsent
        /\ RegistryAbsent
        /\ ClientAbsent

SpecWatched == InitWatched /\ [][NextSequential]_vars

\* Two protected operations side by side: a class with two configured
\* methods, or two functions wrapped by createCircuitBreakerMethod, one of
\* them without a fallback.  The first of each pair has window = reset, the
\* second window > reset.
InitWrappers ==
    \E protected \in {ClassMethods, WrappedFunctions} :
        /\ Constructed(protected)
        /\ \A b \in protected :
              /\ configuration[b].maximumFailuresAllowed = 2
              /\ configuration[b].resetTimeoutInMilliseconds =
                     (IF b \in {"fetchData", "fetchUsersFromService"} THEN 2 ELSE 1)
              /\ fallbackMethodToCall[b] =
                     (IF b = "fetchOrdersFromService" THEN "defaultFallback"
                      ELSE "fallbackMethod")

SpecWrappers == InitWrappers /\ [][NextSequential]_vars

\* ------------------------------------------------------------------ claims
\* A step is a call of the protected operation o with the arguments a.
CallOf(o, a) ==
    \/ o \in ClassMethods /\ ProxiedMethodCall(o, a)
    \/ o \in WrappedFunctions /\ ProtectedFunctionCall(o, a)

\* The step returns what the fallback of o's breaker does with a, and no
\* call of the original method is started.
ServedByFallback(o, a) ==
    /\ returned'.breaker = o
    /\ returned'.via = "circuit open"
    /\ returned'.outcome = FallbackResult(o, a)
    /\ pending' = pending

\* The step starts a call of the original method of o.
InvokesOriginal(o) ==
    \E c \in BagToSet(pending') :
        /\ c.breaker = o
        /\ pending' = pending (+) SetToBag({c})

\* The failures in the list of o's breaker that are younger than the window.
RecordedWithinWindow(o) ==
    {i \in DOMAIN breakers[o].failureTimestampsWithinWindow :
        breakers[o].failureTimestampsWithinWindow[i] >
            now - configuration[o].timeWindowInMilliseconds}

\* The calls of o that failed since its last successful call and were made
\* less than the window before now, and the time of the latest of them.
FailedWithinWindow(o) ==
    {i \in DOMAIN observed[o].failedCalls :
        observed[o].failedCalls[i] >
            now - configuration[o].timeWindowInMilliseconds}

LastFailedCall(o) ==
    CHOOSE t \in {observed[o].failedCalls[i] : i \in FailedWithinWindow(o)} :
        \A i \in FailedWithinWindow(o) : observed[o].failedCalls[i] <= t

\* C1: while a breaker is open and the time is before nextAllowedAttemptTime,
\* every call returns the fallback's result and starts no call of the
\* original method.
C1_OpenBreakerServesFallback ==
    [][\A o \in DOMAIN breakers, a \in Args :
        (/\ breakers[o].isCircuitCurrentlyOpen
         /\ now < breakers[o].nextAllowedAttemptTime
         /\ CallOf(o, a))
        => ServedByFallback(o, a)]_vars

\* A call was served by the fallback of a breaker that had been opened at an
\* earlier instant and whose reset time is still ahead.
C1_Witness ==
    \E o \in DOMAIN breakers :
        /\ returned.breaker = o /\ returned.via = "circuit open"
        /\ breakers[o].isCircuitCurrentlyOpen
        /\ now < breakers[o].nextAllowedAttemptTime
        /\ breakers[o].nextAllowedAttemptTime <
               now + configuration[o].resetTimeoutInMilliseconds

\* C2: when at least maximumFailuresAllowed calls made within the last
\* timeWindowInMilliseconds have failed, with no successful call since, a
\* call made less than resetTimeoutInMilliseconds after the latest of them
\* returns the fallback's result and starts no call of the original method.
C2_ThresholdFailuresServeFallback ==
    [][\A o \in DOMAIN breakers, a \in Args :
        (/\ Cardinality(FailedWithinWindow(o)) >=
                configuration[o].maximumFailuresAllowed
         /\ now < LastFailedCall(o) + configuration[o].resetTimeoutInMilliseconds
         /\ CallOf(o, a))
        => ServedByFallback(o, a)]_vars

\* The call right after the failures that reached the threshold was served
\* by the fallback: it opened the breaker at this instant.
C2_Witness ==
    \E o \in DOMAIN breakers :
        /\ returned.breaker = o /\ returned.via = "circuit open"
        /\ Cardinality(FailedWithinWindow(o)) >=
               configuration[o].maximumFailuresAllowed
        /\ now < LastFailedCall(o) + configuration[o].resetTimeoutInMilliseconds
        /\ breakers[o].nextAllowedAttemptTime =
               now + configuration[o].resetTimeoutInMilliseconds

\* C3: for a breaker with a configured fallback, when the original method
\* rejects, the failure is added to the failure list and the call returns the
\* value the fallback computes from the call's own arguments, not an error.
C3_FailureRecordedAndSwallowed ==
    [][\A c \in BagToSet(pending) :
        (/\ fallbackMethodToCall[c.breaker] = "fallbackMethod"
         /\ OriginalMethodRejects(c))
        => /\ Len(breakers'[c.breaker].failureTimestampsWithinWindow) =
                 Len(breakers[c.breaker].failureTimestampsWithinWindow) + 1
           /\ returned'.outcome =
                 [kind |-> "value", value |-> <<"fallback", c.methodArguments>>]]_vars

\* A call whose original method rejected has returned the fallback's value
\* and its failure is in the list.
C3_Witness ==
    \E o \in DOMAIN breakers :
        /\ returned.breaker = o /\ returned.via = "rejected"
        /\ fallbackMethodToCall[o] = "fallbackMethod"
        /\ returned.outcome.kind = "value"
        /\ Len(breakers[o].failureTimestampsWithinWindow) > 0

\* C4: with calls made one at a time, when the half-open trial call succeeds
\* the breaker is closed with an empty failure history; and a call to a
\* breaker that is not open, with fewer than maximumFailuresAllowed failed
\* calls since the last success, starts the original method and leaves the
\* breaker closed, so that many new failures are needed to open it again.
C4_TrialSuccessCloses ==
    [][/\ \A c \in BagToSet(pending) :
            (c.trial /\ OriginalMethodResolves(c))
            => /\ ~breakers'[c.breaker].isCircuitCurrentlyOpen
               /\ breakers'[c.breaker].failureTimestampsWithinWindow = <<>>
       /\ \A o \in DOMAIN breakers, a \in Args :
            (/\ ~breakers[o].isCircuitCurrentlyOpen
             /\ Cardinality(FailedWithinWindow(o)) <
                    configuration[o].maximumFailuresAllowed
             /\ CallOf(o, a))
            => /\ InvokesOriginal(o)
               /\ ~breakers'[o].isCircuitCurrentlyOpen]_vars

\* A half-open trial has just succeeded.
C4_Witness ==
    \E o \in DOMAIN breakers :
        /\ returned.breaker = o /\ returned.via = "resolved" /\ returned.trial
        /\ ~breakers[o].isCircuitCurrentlyOpen
        /\ breakers[o].nextAllowedAttemptTime > 0

\* C5: after a failed half-open trial, every call arriving less than
\* resetTimeoutInMilliseconds after it returns the fallback's result and
\* starts no call of the original method.
C5_FailedTrialReopens ==
    [][\A o \in DOMAIN breakers, a \in Args :
        (/\ observed[o].failedTrialAt >= 0
         /\ now < observed[o].failedTrialAt
                      + configuration[o].resetTimeoutInMilliseconds
         /\ CallOf(o, a))
        => ServedByFallback(o, a)]_vars

\* C6: while a half-open trial call awaits its result, no other call of the
\* original method is started on that breaker.
C6_OneTrialAtATime ==
    [][\A o \in DOMAIN breakers :
        (\E c \in PendingOn(o) : c.trial) => ~InvokesOriginal(o)]_vars

C8_OnlyWindowFailuresOpen ==
    [][\A o \in DOMAIN breakers :
        (/\ ~breakers[o].isCircuitCurrentlyOpen
         /\ breakers'[o].isCircuitCurrentlyOpen)
        => Cardinality(RecordedWithinWindow(o)) >=
               configuration[o].maximumFailuresAllowed]_vars

\* A breaker was opened by a call made a full window or more after its
\* construction, so that the cutoff lay within the breaker's lifetime.
C8_Witness ==
    \E o \in DOMAIN breakers :
        /\ returned.breaker = o /\ returned.via = "circuit open"
        /\ breakers[o].isCircuitCurrentlyOpen
        /\ breakers[o].nextAllowedAttemptTime =
               now + configuration[o].resetTimeoutInMilliseconds
        /\ now >= configuration[o].timeWindowInMilliseconds

\* C9: a step of a call of one protected operation (its start, served by the
\* fallback or not, the success or the failure of its original method)
\* changes no field of the breaker of any other protected operation.
C9_BreakersIndependent ==
    [][\A o \in DOMAIN breakers :
        (\/ \E a \in Args : CallOf(o, a)
         \/ \E c \in BagToSet(pending) :
                /\ c.originalMethodToExecute = o
                /\ (OriginalMethodResolves(c) \/ OriginalMethodRejects(c)))
        => \A other \in DOMAIN breakers \ {o} :
               breakers'[other] = breakers[other]]_vars

\* A call of one operation has failed while the breaker of the other
\* operation is open, and the first one's breaker is not.
C9_Witness ==
    \E o \in DOMAIN breakers, other \in DOMAIN breakers :
        /\ o # other
        /\ returned.breaker = o /\ returned.via = "rejected"
        /\ ~breakers[o].isCircuitCurrentlyOpen
        /\ breakers[other].isCircuitCurrentlyOpen
        /\ now < breakers[other].nextAllowedAttemptTime

\* C10: a breaker made without a fallback throws the generic error, both
\* when the original method rejects, in which case the failure is still added
\* to the failure list, and when the call finds the circuit open.
C10_NoFallbackThrowsGeneric ==
    [][/\ \A c \in BagToSet(pending) :
            (/\ fallbackMethodToCall[c.breaker] = "defaultFallback"
             /\ OriginalMethodRejects(c))
            => /\ returned'.outcome =
                     [kind |-> "error", value |-> <<ServiceUnavailable>>]
               /\ Len(breakers'[c.breaker].failureTimestampsWithinWindow) =
                     Len(breakers[c.breaker].failureTimestampsWithinWindow) + 1
       /\ \A o \in DOMAIN breakers, a \in Args :
            (/\ fallbackMethodToCall[o] = "defaultFallback"
             /\ CallOf(o, a)
             /\ breakers'[o].isCircuitCurrentlyOpen)
            => /\ returned'.breaker = o
               /\ returned'.outcome =
                     [kind |-> "error", value |-> <<ServiceUnavailable>>]
               /\ pending' = pending]_vars

\* A call of a function wrapped without a fallback found the circuit open
\* and threw the generic error.
C10_Witness ==
    \E o \in DOMAIN breakers :
        /\ fallbackMethodToCall[o] = "defaultFallback"
        /\ returned.breaker = o /\ returned.via = "circuit open"
        /\ returned.outcome = [kind |-> "error", value |-> <<ServiceUnavailable>>]

\* ============================================================== the registry
(***************************************************************************)
(* Service discovery server (src/unnamed/part_005, and the JavaScript      *)
(* original service-discovery-server/index.js with the same handlers).      *)
(* Every handler and the cleanup callback run to completion, so each is one *)
(* step.  registryNow is what Date.now() returns in the registry process,   *)
(* in milliseconds; it moves MillisPerTick at a time.                       *)
(***************************************************************************)

\* ------------------------------------------------------------------ bounds
\* The registry's clock stops after MaxRegistryTicks steps of MillisPerTick.
MaxRegistryTicks == 2
MillisPerTick == 1500

\* ------------------------------------------------------------------ inputs
\* heartbeatInterval of a request body, in seconds: <<>> when the field is
\* left out, <<h>> when it is h.
HeartbeatIntervals == {<<>>, <<1>>}

\* Names asked for with GET /services/:name.
ServiceNames == {"svc-a", "svc-b"}

\* The processes of a deployment: each is a (name, ip, port) that registers,
\* sends heartbeats and removes itself.  Two instances of one service on two
\* hosts, and two services on one host.
Deployments ==
    { { [name |-> "svc-a", ip |-> "10.0.0.1", port |-> 9000],
        [name |-> "svc-a", ip |-> "::1", port |-> 9001] },
      { [name |-> "svc-a", ip |-> "10.0.0.1", port |-> 9000],
        [name |-> "svc-b", ip |-> "10.0.0.1", port |-> 9000] } }

\* ---------------------------------------------------------------- Map
\* A JavaScript Map: its entries [key, value] in insertion order.
has(map, key) == \E i \in 1..Len(map) : map[i].key = key

get(map, key) == map[CHOOSE i \in 1..Len(map) : map[i].key = key].value

set(map, key, value) ==
    IF has(map, key)
    THEN [i \in 1..Len(map) |->
             IF map[i].key = key THEN [key |-> key, value |-> value] ELSE map[i]]
    ELSE Append(map, [key |-> key, value |-> value])

delete(map, key) ==
    LET others(entry) == entry.key # key
    IN  SelectSeq(map, others)

size(map) == Len(map)

values(map) == [i \in 1..Len(map) |-> map[i].value]

\* ------------------------------------------------------------ the helpers
createServiceId(name, ip, port) == name \o "-" \o ip \o "-" \o ToString(port)

\* Mutant: the grace period is left out.
isServiceAlive_NoGrace(service, currentTime) ==
    currentTime - service.lastHeartbeat <= service.heartbeatInterval * 1000

\* Mutant: the boundary is excluded.
isServiceAlive_Strict(service, currentTime) ==
    currentTime - service.lastHeartbeat
        < service.heartbeatInterval * 1000 + (service.heartbeatInterval * 1000) \div 2

\* isServiceAlive, with the value its Date.now() returns as currentTime.
isServiceAlive(service, currentTime) ==
    LET timeSinceLastHeartbeat == currentTime - service.lastHeartbeat
        graceTime == (service.heartbeatInterval * 1000) \div 2
        maxAllowedTime == service.heartbeatInterval * 1000 + graceTime
    IN  timeSinceLastHeartbeat <= maxAllowedTime

\* const { heartbeatInterval = 30 } = req.body
heartbeatIntervalOf(body) ==
    IF body.heartbeatInterval = <<>> THEN 30 ELSE body.heartbeatInterval[1]

\* Mutant: only the name is required.
nameOrPortMissing_OnlyName(body) == body.name = ""

\* !name || !port
nameOrPortMissing(body) == body.name = "" \/ body.port = 0

\* "Get or create service group".
withServiceGroup(store, name) ==
    IF ~has(store, name) THEN set(store, name, <<>>) ELSE store

newInstance(name, ip, port, heartbeatInterval, currentTime) ==
    [id |-> createServiceId(name, ip, port), name |-> name, ip |-> ip,
     port |-> port, heartbeatInterval |-> heartbeatInterval,
     registeredAt |-> currentTime, lastHeartbeat |-> currentTime]
\* ------------------------------------------------------------ the handlers
\* Each handler is given as what it leaves in the store and what it answers.

\* Mutant: a register adds an instance to the group without looking for its id.
registerInstance_AddsAgain(store, ip, body, currentTime) ==
    LET id == createServiceId(body.name, ip, body.port)
        grouped == withServiceGroup(store, body.name)
        serviceGroup == get(grouped, body.name)
    IN  set(grouped, body.name,
            Append(serviceGroup,
                   [key |-> id,
                    value |-> newInstance(body.name, ip, body.port,
                                          heartbeatIntervalOf(body), currentTime)]))

\* POST /register, past the validation.
registerInstance(store, ip, body, currentTime) ==
    LET id == createServiceId(body.name, ip, body.port)
        grouped == withServiceGroup(store, body.name)
        serviceGroup == get(grouped, body.name)
    IN  set(grouped, body.name,
            set(serviceGroup, id,
                newInstance(body.name, ip, body.port, heartbeatIntervalOf(body),
                            currentTime)))

\* Mutant: a heartbeat leaves lastHeartbeat as it was.
touched_KeepsLastHeartbeat(service, currentTime) == service

\* "Update last heartbeat".
touched(service, currentTime) == [service EXCEPT !.lastHeartbeat = currentTime]

\* Mutant: a heartbeat of an unknown instance creates it with the default
\* interval whatever the body says.
createdByHeartbeat_DefaultInterval(name, ip, port, heartbeatInterval, currentTime) ==
    newInstance(name, ip, port, 30, currentTime)

\* "Get or create service entity": the instance a heartbeat creates.
createdByHeartbeat(name, ip, port, heartbeatInterval, currentTime) ==
    [id |-> createServiceId(name, ip, port), name |-> name, ip |-> ip,
     port |-> port, heartbeatInterval |-> heartbeatInterval,
     registeredAt |-> currentTime, lastHeartbeat |-> currentTime]

\* Mutant: a heartbeat stores the instance anew, as a register does.
recordHeartbeat_Reregisters(store, ip, body, currentTime) ==
    registerInstance(store, ip, body, currentTime)

\* POST /heartbeat, past the validation.
recordHeartbeat(store, ip, body, currentTime) ==
    LET id == createServiceId(body.name, ip, body.port)
        grouped == withServiceGroup(store, body.name)
        serviceGroup == get(grouped, body.name)
        entity == IF ~has(serviceGroup, id)
                  THEN set(serviceGroup, id,
                           createdByHeartbeat(body.name, ip, body.port,
                                              heartbeatIntervalOf(body), currentTime))
                  ELSE serviceGroup
        service == get(entity, id)
    IN  set(grouped, body.name, set(entity, id, touched(service, currentTime)))

\* GET /services/:name
aliveServices(store, name, currentTime) ==
    LET alive(service) == isServiceAlive(service, currentTime)
    IN  IF ~has(store, name) THEN <<>>
        ELSE SelectSeq(values(get(store, name)), alive)

\* GET /services: every group filtered, each instance tagged 'alive'.
allServices(store, currentTime) ==
    [i \in 1..Len(store) |->
        [key |-> store[i].key,
         value |-> LET alive == aliveServices(store, store[i].key, currentTime)
                   IN  [j \in 1..Len(alive) |->
                           [service |-> alive[j], status |-> "alive"]]]]

\* parseInt of the :port parameter, for the decimal text of a port.
parseInt(text) ==
    CHOOSE n \in {8000, 9000, 9001} : ToString(n) = text

\* Mutant: the emptied group stays in the store.
withoutEmptyGroup_Keeps(store, name, serviceGroup) == set(store, name, serviceGroup)

\* "Remove service group if empty", after the group lost an instance.
withoutEmptyGroup(store, name, serviceGroup) ==
    IF size(serviceGroup) = 0 THEN delete(store, name)
    ELSE set(store, name, serviceGroup)

\* Mutant: a DELETE drops the whole group of the name.
removeInstance_WholeGroup(store, ip, name, port) == delete(store, name)

\* DELETE /services/:name/:port
removeInstance(store, ip, name, port) ==
    LET id == createServiceId(name, ip, parseInt(port))
    IN  IF ~has(store, name) THEN store
        ELSE withoutEmptyGroup(store, name, delete(get(store, name), id))

\* Mutant: the sweep removes nothing.
sweptGroup_KeepsDead(serviceGroup, currentTime) == serviceGroup

\* The inner loop of the cleanup: the dead instances leave the group.
sweptGroup(serviceGroup, currentTime) ==
    LET alive(entry) == isServiceAlive(entry.value, currentTime)
    IN  SelectSeq(serviceGroup, alive)

\* removedCount at the end of the cleanup callback.
removedCount(store, currentTime) ==
    LET RECURSIVE counted(_)
        counted(i) ==
            IF i = 0 THEN 0
            ELSE counted(i - 1) + Len(store[i].value)
                                - Len(sweptGroup(store[i].value, currentTime))
    IN  counted(Len(store))

\* Mutant: the sweep stops after the first group.
cleanupDeadServices_FirstGroupOnly(store, currentTime) ==
    LET swept == [i \in 1..Len(store) |->
                     [key |-> store[i].key,
                      value |-> IF i = 1
                                THEN sweptGroup(store[i].value, currentTime)
                                ELSE store[i].value]]
        nonEmpty(entry) == size(entry.value) # 0
    IN  SelectSeq(swept, nonEmpty)

\* The cleanup callback of setInterval.
cleanupDeadServices(store, currentTime) ==
    LET swept == [i \in 1..Len(store) |->
                     [key |-> store[i].key,
                      value |-> sweptGroup(store[i].value, currentTime)]]
        nonEmpty(entry) == size(entry.value) # 0
    IN  SelectSeq(swept, nonEmpty)
\* -------------------------------------------------------------- the requests
Exchange(method, name, ip, port, heartbeatInterval, status, body) ==
    [request |-> [method |-> method, name |-> name, ip |-> ip, port |-> port,
                  heartbeatInterval |-> heartbeatInterval],
     status |-> status, body |-> body, found |-> <<>>]

Process(name, ip, port) == [name |-> name, ip |-> ip, port |-> port]

Restricted(f, S) == [x \in S |-> f[x]]

PostRegisterBody(ip, body) ==
    /\ IF nameOrPortMissing(body)
       THEN /\ handled' = Exchange("POST /register", body.name, ip, body.port,
                               body.heartbeatInterval, 400,
                               [error |-> "Name and port are required"])
            /\ UNCHANGED <<services, kept>>
       ELSE /\ services' = registerInstance(services, ip, body, registryNow)
            /\ handled' = [Exchange("POST /register", body.name, ip, body.port,
                               body.heartbeatInterval, 200,
                               [id |-> createServiceId(body.name, ip, body.port),
                                heartbeatInterval |-> heartbeatIntervalOf(body),
                                registeredAt |-> registryNow])
                               EXCEPT !.found = services]
            /\ kept' = [p \in DOMAIN kept \cup {Process(body.name, ip, body.port)} |->
                           IF p = Process(body.name, ip, body.port)
                           THEN [heartbeatInterval |-> heartbeatIntervalOf(body),
                                 lastSent |-> registryNow]
                           ELSE kept[p]]
    /\ UNCHANGED <<registryNow, registrants>>

PostRegister(ip, body) ==
    /\ PostRegisterBody(ip, body)
    /\ UNCHANGED <<breakerVars, clientVars, orchestratorVars>>

PostHeartbeatBody(ip, body) ==
    /\ IF nameOrPortMissing(body)
       THEN /\ handled' = Exchange("POST /heartbeat", body.name, ip, body.port,
                               body.heartbeatInterval, 400,
                               [error |-> "Name and port are required"])
            /\ UNCHANGED <<services, kept>>
       ELSE LET after == recordHeartbeat(services, ip, body, registryNow)
                service == get(get(after, body.name),
                               createServiceId(body.name, ip, body.port))
            IN  /\ services' = after
                /\ handled' = Exchange("POST /heartbeat", body.name, ip, body.port,
                                   body.heartbeatInterval, 200,
                                   [ok |-> TRUE, lastHeartbeat |-> registryNow,
                                    nextHeartbeatIn |-> service.heartbeatInterval])
                /\ kept' = [p \in DOMAIN kept |->
                               IF p = Process(body.name, ip, body.port)
                               THEN [kept[p] EXCEPT !.lastSent = registryNow]
                               ELSE kept[p]]
    /\ UNCHANGED <<registryNow, registrants>>

PostHeartbeat(ip, body) ==
    /\ PostHeartbeatBody(ip, body)
    /\ UNCHANGED <<breakerVars, clientVars, orchestratorVars>>

GetServicesByNameBody(name) ==
    /\ handled' = Exchange("GET /services/:name", name, "", 0, <<>>, 200,
                       [services |-> aliveServices(services, name, registryNow)])
    /\ UNCHANGED <<registryNow, services, registrants, kept>>

GetServicesByName(name) ==
    /\ GetServicesByNameBody(name)
    /\ UNCHANGED <<breakerVars, clientVars, orchestratorVars>>

GetServices ==
    /\ handled' = Exchange("GET /services", "", "", 0, <<>>, 200,
                       allServices(services, registryNow))
    /\ UNCHANGED <<registryNow, services, registrants, kept>>
    /\ UNCHANGED <<breakerVars, clientVars, orchestratorVars>>

DeleteServiceBody(ip, name, port) ==
    LET id == createServiceId(name, ip, parseInt(port))
        deleted == has(services, name) /\ has(get(services, name), id)
    IN  /\ services' = removeInstance(services, ip, name, port)
        /\ handled' =
             IF ~has(services, name)
             THEN Exchange("DELETE /services/:name/:port", name, ip, parseInt(port),
                           <<>>, 404, [error |-> "Service not found"])
             ELSE IF deleted
             THEN Exchange("DELETE /services/:name/:port", name, ip, parseInt(port),
                           <<>>, 200, [message |-> "Service removed successfully"])
             ELSE Exchange("DELETE /services/:name/:port", name, ip, parseInt(port),
                           <<>>, 404, [error |-> "Service instance not found"])
        /\ kept' = Restricted(kept, DOMAIN kept \ {Process(name, ip, parseInt(port))})
        /\ UNCHANGED <<registryNow, registrants>>

DeleteService(ip, name, port) ==
    /\ DeleteServiceBody(ip, name, port)
    /\ UNCHANGED <<breakerVars, clientVars, orchestratorVars>>

CleanupSweep ==
    /\ services' = cleanupDeadServices(services, registryNow)
    /\ handled' = Exchange("setInterval cleanup", "", "", 0, <<>>, 0,
                       [removedCount |-> removedCount(services, registryNow)])
    /\ UNCHANGED <<registryNow, registrants, kept>>
    /\ UNCHANGED <<breakerVars, clientVars, orchestratorVars>>

\* The process p sent its latest register or heartbeat no more than 1.5 times
\* its interval before the time t.
SentInTime(p, t) ==
    2 * (t - kept[p].lastSent) <= 3 * kept[p].heartbeatInterval * 1000

\* Date.now() of the registry moves on.
RegistryTickBody ==
    /\ registryNow + MillisPerTick <= MaxRegistryTicks * MillisPerTick
    /\ registryNow' = registryNow + MillisPerTick
    /\ handled' = NothingHandled
    /\ kept' = Restricted(kept, {p \in DOMAIN kept :
                                    SentInTime(p, registryNow + MillisPerTick)})
    /\ UNCHANGED <<services, registrants>>

RegistryTick ==
    /\ RegistryTickBody
    /\ UNCHANGED <<breakerVars, clientVars, orchestratorVars>>

\* ------------------------------------------------------------ specification
\* The breakers' process is not part of the run.
BreakersAbsent ==
    /\ now = 0
    /\ configuration = <<>>
    /\ fallbackMethodToCall = <<>>
    /\ breakers = <<>>
    /\ observed = <<>>
    /\ latestFailures = <<>>
    /\ pending = EmptyBag
    /\ returned = NothingReturned

\* const services = new Map(), before app.listen.
InitRegistry ==
    /\ BreakersAbsent
    /\ OrchestratorAbsent
    /\ ClientAbsent
    /\ registryNow = 0
    /\ services = <<>>
    /\ registrants \in Deployments
    /\ handled = NothingHandled
    /\ kept = <<>>

NextRegistry ==
    \/ RegistryTick
    \/ CleanupSweep
    \/ GetServices
    \/ \E name \in ServiceNames : GetServicesByName(name)
    \/ \E p \in registrants, h \in HeartbeatIntervals :
          PostRegister(p.ip, [name |-> p.name, port |-> p.port,
                              heartbeatInterval |-> h])
    \/ \E p \in registrants, h \in HeartbeatIntervals :
          PostHeartbeat(p.ip, [name |-> p.name, port |-> p.port,
                               heartbeatInterval |-> h])
    \/ \E p \in registrants : DeleteService(p.ip, p.name, ToString(p.port))
    \/ \E p \in registrants, method \in {"register", "heartbeat"},
         missing \in {"name", "port"} :
          LET body == [name |-> IF missing = "name" THEN "" ELSE p.name,
                       port |-> IF missing = "port" THEN 0 ELSE p.port,
                       heartbeatInterval |-> <<1>>]
          IN  IF method = "register" THEN PostRegister(p.ip, body)
              ELSE PostHeartbeat(p.ip, body)

SpecRegistry == InitRegistry /\ [][NextRegistry]_vars
\* ------------------------------------------------------- claims, the registry
\* The list of instances holds the instance of the process p.
Lists(instances, p) ==
    \E i \in 1..Len(instances) :
        /\ instances[i].name = p.name
        /\ instances[i].ip = p.ip
        /\ instances[i].port = p.port

\* The latest request was GET /services/:name for this name.
Discovered(name) ==
    /\ handled.request.method = "GET /services/:name"
    /\ handled.request.name = name

\* C11: an instance that registered with the interval h, whose register and
\* heartbeats were never more than 1.5*h seconds apart up to now and that no
\* DELETE removed (the processes of kept), is in the answer of every
\* discover(name): the one the registry would give now, and the one it gave
\* to the latest request, whatever sweeps, discovers and requests of the
\* other instances came in between.
C11_TimelyHeartbeatsStayDiscoverable ==
    \A p \in DOMAIN kept :
        /\ Lists(aliveServices(services, p.name, registryNow), p)
        /\ Discovered(p.name) => Lists(handled.body.services, p)

\* An instance with the interval 1 registered at 0, sent a heartbeat one tick
\* later, and a discover another tick later still returns it.
C11_Witness ==
    \E p \in DOMAIN kept :
        /\ kept[p].heartbeatInterval = 1
        /\ kept[p].lastSent = MillisPerTick
        /\ registryNow = 2 * MillisPerTick
        /\ Discovered(p.name)
        /\ \E i \in 1..Len(handled.body.services) :
              /\ handled.body.services[i].port = p.port
              /\ handled.body.services[i].ip = p.ip
              /\ handled.body.services[i].registeredAt = 0
              /\ handled.body.services[i].lastHeartbeat = MillisPerTick
\* The instances the store holds under a name, and those of them whose last
\* heartbeat is no more than heartbeatInterval*1500 ms before the time t.
StoredInstances(name) ==
    {services[i].value[j].value :
        i \in {k \in 1..Len(services) : services[k].key = name},
        j \in 1..(IF \E k \in 1..Len(services) : services[k].key = name
                  THEN Len(get(services, name)) ELSE 0)}

WithinWindow(instance, t) ==
    t - instance.lastHeartbeat <= instance.heartbeatInterval * 1500

Elements(seq) == {seq[i] : i \in 1..Len(seq)}

\* C12: the answer to discover(name) is exactly the stored instances of the
\* name with now - lastHeartbeat <= heartbeatInterval*1500 ms, each once (so
\* the empty list for a name the store does not hold, and without the
\* instances past the window even if no sweep removed them yet); the answer
\* to listAll has one entry for every stored name, with the same instances,
\* each tagged 'alive'.
C12_DiscoverReturnsExactlyTheLive ==
    /\ \A name \in ServiceNames :
          Discovered(name) =>
              /\ Elements(handled.body.services) =
                     {x \in StoredInstances(name) : WithinWindow(x, registryNow)}
              /\ Len(handled.body.services) =
                     Cardinality(Elements(handled.body.services))
              /\ handled.status = 200
    /\ handled.request.method = "GET /services" =>
          /\ {handled.body[i].key : i \in 1..Len(handled.body)} =
                 {services[i].key : i \in 1..Len(services)}
          /\ \A i \in 1..Len(handled.body) :
                /\ {e.service : e \in Elements(handled.body[i].value)} =
                       {x \in StoredInstances(handled.body[i].key) :
                            WithinWindow(x, registryNow)}
                /\ \A e \in Elements(handled.body[i].value) : e.status = "alive"
                /\ Len(handled.body[i].value) =
                       Cardinality(Elements(handled.body[i].value))

\* The store holds two instances of a name that no sweep removed: one exactly
\* on the boundary of its window, which the discover returns, and one past
\* its window, which the discover leaves out.
C12_Witness ==
    \E name \in ServiceNames :
        /\ Discovered(name)
        /\ Len(handled.body.services) = 1
        /\ registryNow - handled.body.services[1].lastHeartbeat =
               handled.body.services[1].heartbeatInterval * 1500
        /\ Cardinality(StoredInstances(name)) = 2
\* The group the store holds under a name; no entries when it holds none.
GroupOf(store, name) == IF has(store, name) THEN get(store, name) ELSE <<>>

\* The step is an accepted register of p, whose id the store already held.
ReRegisters(p) ==
    /\ handled'.request.method = "POST /register"
    /\ handled'.status = 200
    /\ Process(handled'.request.name, handled'.request.ip, handled'.request.port) = p
    /\ has(GroupOf(services, p.name), createServiceId(p.name, p.ip, p.port))

\* The group of p's name has as many entries after the step as before, with
\* the same ids at the same places, and the answer names the id.
SameEntries(p) ==
    LET before == GroupOf(services, p.name)
        after == GroupOf(services', p.name)
    IN  /\ Len(after) = Len(before)
        /\ \A i \in 1..Len(before) :
              /\ after[i].key = before[i].key
              /\ after[i].value.id = before[i].value.id
        /\ handled'.body.id = createServiceId(p.name, p.ip, p.port)

\* C13, as claimed: registering a stored (name, ip, port) again leaves the
\* group with the same number of instances and the same ids, and discover(name)
\* as long as it was.
C13_ReRegisterKeepsDiscoverLength ==
    [][\A p \in registrants :
          ReRegisters(p) =>
              /\ SameEntries(p)
              /\ Len(aliveServices(services', p.name, registryNow)) =
                     Len(aliveServices(services, p.name, registryNow))]_vars

\* C13, amended: registering a stored (name, ip, port) again leaves the group
\* with the same number of instances and the same ids; discover(name) is as
\* long as it was when the instance was within its window, and one longer,
\* by that instance, when it was stored but past its window.
C13_ReRegisterKeepsEntries ==
    [][\A p \in registrants :
          ReRegisters(p) =>
              LET old == get(GroupOf(services, p.name),
                             createServiceId(p.name, p.ip, p.port))
              IN  /\ SameEntries(p)
                  /\ Len(aliveServices(services', p.name, registryNow)) =
                         Len(aliveServices(services, p.name, registryNow))
                         + (IF WithinWindow(old, registryNow) THEN 0 ELSE 1)
                  /\ Lists(aliveServices(services', p.name, registryNow), p)]_vars

\* A group of two whose first entry was registered after the second: it was
\* stored, and the latest request registered it again.
C13_Witness ==
    \E name \in ServiceNames :
        /\ handled.request.method = "POST /register"
        /\ handled.status = 200
        /\ handled.request.name = name
        /\ Len(GroupOf(services, name)) = 2
        /\ GroupOf(services, name)[1].key = handled.body.id
        /\ GroupOf(services, name)[1].value.registeredAt = registryNow
        /\ GroupOf(services, name)[2].value.registeredAt < registryNow
\* C14: whatever requests and sweeps were handled, every name of the store
\* maps to a group with at least one instance, and no name is stored twice.
C14_NoEmptyGroup ==
    /\ \A i \in 1..Len(services) : Len(services[i].value) >= 1
    /\ \A i, j \in 1..Len(services) :
          services[i].key = services[j].key => i = j

\* A DELETE just removed the last instance of a name while the store still
\* holds the group of another name: the name is gone from the store.
C14_Witness ==
    /\ handled.request.method = "DELETE /services/:name/:port"
    /\ handled.status = 200
    /\ ~has(services, handled.request.name)
    /\ Len(services) = 1
\* C15: a heartbeat for a (name, ip, port) the store does not hold is
\* answered 200 and leaves the store a register with the same body from the
\* same ip would leave at that time; the instance is there with the
\* interval of the body (30 when it has none) and lastHeartbeat =
\* registeredAt = now.
C15_UnknownHeartbeatRegisters ==
    [][\A p \in registrants, h \in HeartbeatIntervals :
          LET body == [name |-> p.name, port |-> p.port, heartbeatInterval |-> h]
              id == createServiceId(p.name, p.ip, p.port)
          IN  (/\ PostHeartbeat(p.ip, body)
               /\ ~has(GroupOf(services, p.name), id))
              => /\ handled'.status = 200
                 /\ services' = registerInstance(services, p.ip, body, registryNow)
                 /\ has(GroupOf(services', p.name), id)
                 /\ LET service == get(GroupOf(services', p.name), id)
                    IN  /\ service.lastHeartbeat = registryNow
                        /\ service.registeredAt = registryNow
                        /\ service.heartbeatInterval =
                               (IF h = <<>> THEN 30 ELSE h[1])
                        /\ handled'.body.nextHeartbeatIn =
                               service.heartbeatInterval]_vars

\* A heartbeat with the interval 1 was just accepted from a process that is
\* not registered, after the clock moved, and the store holds its instance as
\* created now.
C15_Witness ==
    \E p \in registrants :
        /\ handled.request.method = "POST /heartbeat"
        /\ handled.status = 200
        /\ handled.request.heartbeatInterval = <<1>>
        /\ Process(handled.request.name, handled.request.ip, handled.request.port) = p
        /\ p \notin DOMAIN kept
        /\ registryNow > 0
        /\ has(GroupOf(services, p.name), createServiceId(p.name, p.ip, p.port))
        /\ get(GroupOf(services, p.name),
               createServiceId(p.name, p.ip, p.port)).registeredAt = registryNow
        /\ get(GroupOf(services, p.name),
               createServiceId(p.name, p.ip, p.port)).heartbeatInterval = 1
\* The step is the DELETE of p's instance by p.
Removes(p) == DeleteService(p.ip, p.name, ToString(p.port))

\* The latest request was an accepted register of p.
JustRegistered(p) ==
    /\ handled.request.method = "POST /register"
    /\ handled.status = 200
    /\ Process(handled.request.name, handled.request.ip, handled.request.port) = p

StoredNames(store) == {store[i].key : i \in 1..Len(store)}

C17_MissingNameOrPortRejected ==
    [][\A p \in registrants, h \in HeartbeatIntervals :
       \A name \in {"", p.name}, port \in {0, p.port} :
          LET body == [name |-> name, port |-> port, heartbeatInterval |-> h]
          IN  ((name = "" \/ port = 0)
               /\ (PostRegister(p.ip, body) \/ PostHeartbeat(p.ip, body)))
              => /\ handled'.status = 400
                 /\ services' = services]_vars

\* A request without a port was just answered 400 while the store holds two
\* groups.
C17_Witness ==
    /\ handled.request.method \in {"POST /register", "POST /heartbeat"}
    /\ handled.request.port = 0
    /\ handled.request.name # ""
    /\ handled.status = 400
    /\ Len(services) = 2
\* C18: right after a sweep the store holds no instance that fails the
\* liveness predicate at the time of the sweep and no empty group, and every
\* instance that passed it is still there, in its group, with every field as
\* it was; the sweep adds nothing.
C18_SweepRemovesExactlyTheDead ==
    [][CleanupSweep =>
          /\ \A name \in StoredNames(services') :
                /\ Len(get(services', name)) >= 1
                /\ \A entry \in Elements(get(services', name)) :
                      /\ WithinWindow(entry.value, registryNow)
                      /\ entry \in Elements(GroupOf(services, name))
          /\ \A name \in StoredNames(services) :
                \A entry \in Elements(get(services, name)) :
                    WithinWindow(entry.value, registryNow)
                        => entry \in Elements(GroupOf(services', name))
          /\ handled'.body.removedCount =
                 Cardinality(UNION {Elements(get(services, name)) :
                                        name \in StoredNames(services)})
                 - Cardinality(UNION {Elements(get(services', name)) :
                                          name \in StoredNames(services')})]_vars

\* A sweep just removed one instance and left one that is exactly on the
\* boundary of its window.
C18_Witness ==
    /\ handled.request.method = "setInterval cleanup"
    /\ handled.body.removedCount = 1
    /\ \E name \in StoredNames(services) :
          \E entry \in Elements(get(services, name)) :
              registryNow - entry.value.lastHeartbeat
                  = entry.value.heartbeatInterval * 1500
\* ===================================================== the discovery client
(***************************************************************************)
(* ServiceDiscoveryClient (src/unnamed/part_006).  getServiceUrl is two     *)
(* steps: the synchronous prefix up to the await of _fetchServices, and the *)
(* continuation that runs when the request to the registry is answered or   *)
(* fails.  Other calls and the clock may move between the two.  clientNow   *)
(* is what Date.now() returns in the client's process.                      *)
(***************************************************************************)

\* ------------------------------------------------------------------ bounds
\* The client's clock stops after MaxClientTicks steps of MillisPerTick; at
\* most MaxFetching getServiceUrl calls await the registry at the same time.
MaxClientTicks == 3
MaxFetching == 2

\* ------------------------------------------------------------------ inputs
\* The names the application resolves.
PeerNames == {"user-service"}

\* What GET /services/:name can answer for a peer name: instances of it, as
\* the registry stores them.
RegistryAnswers(serviceName) ==
    LET first == newInstance(serviceName, "10.0.0.1", 4000, 1, 0)
        second == newInstance(serviceName, "::1", 4001, 2, 0)
    IN  {<<>>, <<first>>, <<second>>, <<first, second>>}

\* The options the constructor merges: the defaults, and a cacheMultiplier
\* the user may override.
ClientOptions ==
    { [defaultHeartbeatInterval |-> 30, cacheMultiplier |-> m,
       requestTimeout |-> 5000] : m \in {2, 3} }

\* The milliseconds the clock can move between two reads of Date.now() in
\* consecutive lines: none, or a millisecond ends in between.
BetweenReads == {0, 1}

\* ------------------------------------------------------------- the helpers
\* ip.includes(':')
includes(text, part) == \E i \in 1..Len(text) : SubSeq(text, i, i) = part

formatUrl(ip, port) ==
    IF includes(ip, ":") THEN "http://[" \o ip \o "]:" \o ToString(port)
    ELSE "http://" \o ip \o ":" \o ToString(port)

\* _selectRandomService: the URLs Math.random() can pick.
selectRandomService(instances) ==
    {formatUrl(instances[i].ip, instances[i].port) : i \in 1..Len(instances)}

\* _getCachedServices; null is given as the empty list, which the callers
\* treat alike.
getCachedServices(cache, serviceName) ==
    IF has(cache, serviceName) THEN get(cache, serviceName).services ELSE <<>>

\* Mutant: the entry is valid until cachedAt.
isCacheValid_UntilCachedAt(cache, serviceName, currentTime) ==
    /\ has(cache, serviceName)
    /\ currentTime < get(cache, serviceName).cachedAt

isCacheValid(cache, serviceName, currentTime) ==
    /\ has(cache, serviceName)
    /\ currentTime < get(cache, serviceName).expiresAt

\* Math.min(...services.map(service => service.heartbeatInterval))
minHeartbeatInterval(instances) ==
    CHOOSE m \in {instances[i].heartbeatInterval : i \in 1..Len(instances)} :
        \A i \in 1..Len(instances) : m <= instances[i].heartbeatInterval

\* _updateCache.  It reads Date.now() twice, for cachedAt and then for
\* expiresAt: firstRead and secondRead.
updateCache(cache, serviceName, instances, firstRead, secondRead) ==
    IF Len(instances) = 0 THEN cache
    ELSE LET cacheDuration == minHeartbeatInterval(instances) * 1000
                                  * options.cacheMultiplier
         IN  set(cache, serviceName,
                 [services |-> instances, cachedAt |-> firstRead,
                  expiresAt |-> secondRead + cacheDuration])

\* Mutant: the error of the failed request is passed on.
NoInstances_NetworkError(serviceName) == "connect ECONNREFUSED 127.0.0.1:3000"

\* The message of the error getServiceUrl throws.
NoInstances(serviceName) == "No instances available for service: " \o serviceName

\* ------------------------------------------------------------ getServiceUrl
Resolved(serviceName, via, kind, value) ==
    [serviceName |-> serviceName, via |-> via, kind |-> kind, value |-> value]

\* getServiceUrl up to its first return or its await, as far as the client
\* goes.
getServiceUrlBody(serviceName) ==
    LET cachedServices == getCachedServices(serviceCache, serviceName)
    IN  /\ IF /\ Len(cachedServices) > 0
              /\ isCacheValid(serviceCache, serviceName, clientNow)
           THEN /\ \E url \in selectRandomService(cachedServices) :
                      resolved' = Resolved(serviceName, "cache", "value", url)
                /\ UNCHANGED fetching
           ELSE /\ BagCardinality(fetching) < MaxFetching
                /\ fetching' = fetching (+) SetToBag(
                       {[serviceName |-> serviceName,
                         cachedServices |-> cachedServices]})
                /\ UNCHANGED resolved
        /\ UNCHANGED <<clientNow, options, serviceCache, registrationVars>>

\* getServiceUrl up to its first return or its await, called by an
\* application that is not under a breaker.
getServiceUrl(serviceName) ==
    /\ getServiceUrlBody(serviceName)
    /\ UNCHANGED <<breakerVars, registryVars, orchestratorVars>>

\* Mutant: without fresh services the call throws, cached services or not.
staleOrThrow_Throws(call) ==
    resolved' = Resolved(call.serviceName, "none", "error",
                         NoInstances(call.serviceName))

\* "No fresh services available, try stale cache as fallback".
staleOrThrow(call) ==
    IF Len(call.cachedServices) > 0
    THEN \E url \in selectRandomService(call.cachedServices) :
             resolved' = Resolved(call.serviceName, "stale", "value", url)
    ELSE resolved' = Resolved(call.serviceName, "none", "error",
                              NoInstances(call.serviceName))

\* The request of _fetchServices is answered with response.data.services, as
\* far as the client goes.
FetchResolvesBody(call, freshServices) ==
    /\ call \in BagToSet(fetching)
    /\ fetching' = fetching (-) SetToBag({call})
    /\ IF Len(freshServices) > 0
       THEN /\ \E elapsed \in BetweenReads :
                  serviceCache' = updateCache(serviceCache, call.serviceName,
                                              freshServices, clientNow,
                                              clientNow + elapsed)
            /\ \E url \in selectRandomService(freshServices) :
                  resolved' = Resolved(call.serviceName, "fresh", "value", url)
       ELSE /\ staleOrThrow(call)
            /\ UNCHANGED serviceCache
    /\ UNCHANGED <<clientNow, options, registrationVars>>

\* The request of _fetchServices is answered with response.data.services.
FetchResolves(call, freshServices) ==
    /\ FetchResolvesBody(call, freshServices)
    /\ UNCHANGED <<breakerVars, registryVars, orchestratorVars>>

\* The request of _fetchServices fails, as far as the client goes.
FetchRejectsBody(call) ==
    /\ call \in BagToSet(fetching)
    /\ fetching' = fetching (-) SetToBag({call})
    /\ staleOrThrow(call)
    /\ UNCHANGED <<clientNow, options, serviceCache, registrationVars>>

\* Mutant: a failed request stores the list the call had read again.
FetchRejects_RenewsStale(call) ==
    /\ call \in BagToSet(fetching)
    /\ fetching' = fetching (-) SetToBag({call})
    /\ staleOrThrow(call)
    /\ serviceCache' = updateCache(serviceCache, call.serviceName,
                                   call.cachedServices, clientNow, clientNow)
    /\ UNCHANGED <<clientNow, options, registrationVars>>
    /\ UNCHANGED <<breakerVars, registryVars, orchestratorVars>>

\* The request of _fetchServices fails: the error is logged twice and dropped.
FetchRejects(call) ==
    /\ FetchRejectsBody(call)
    /\ UNCHANGED <<breakerVars, registryVars, orchestratorVars>>

clearCache ==
    /\ serviceCache' = <<>>
    /\ UNCHANGED <<clientNow, options, fetching, resolved, registrationVars>>
    /\ UNCHANGED <<breakerVars, registryVars, orchestratorVars>>

\* Date.now() of the client moves on.
ClientTickBody ==
    /\ clientNow + MillisPerTick <= MaxClientTicks * MillisPerTick
    /\ clientNow' = clientNow + MillisPerTick
    /\ resolved' = NothingResolved
    /\ settled' = NothingSettled
    /\ UNCHANGED <<options, serviceCache, fetching>>
    /\ UNCHANGED <<currentService, heartbeatTimer, isRegistered, timers,
                   requests>>

ClientTick ==
    /\ ClientTickBody
    /\ UNCHANGED <<breakerVars, registryVars, orchestratorVars>>

\* ------------------------------------------------------------ registration
\* register and unregister are two steps each, like getServiceUrl: the prefix
\* up to the await of the request, and the continuation.  _sendHeartbeat is
\* the same, called by register's continuation and by the interval.  A
\* nullable field is a sequence of no or one element.

\* At most MaxRequests register, heartbeat and delete requests await the
\* registry at the same time.
MaxRequests == 2

\* discoveryClient.register('api-gateway', port) of the gateway.
Registrations == {[serviceName |-> "api-gateway", servicePort |-> 8000]}

\* The address the registry sees the client's requests come from.
ClientIp == "10.0.0.9"

\* What POST /register can answer to a request: the id of the instance, and
\* the interval of the request or one the registry chose.  registeredAt,
\* which the client does not read, is left out.
RegisterAnswers(call) ==
    { [id |-> createServiceId(call.name, ClientIp, call.port),
       heartbeatInterval |-> h] : h \in {1, call.heartbeatInterval} }

\* How a call ended: it returned ("value") or threw ("error"), and the line
\* it logged last or the message of the error.
Settled(operation, kind, value) ==
    [operation |-> operation, kind |-> kind, value |-> value]

\* clearInterval(handle) when the handle is not null
clearInterval(running, handle) ==
    running (-) SetToBag({handle[i] : i \in 1..Len(handle)})

\* The requests on their way after _sendHeartbeat() ran up to its await with
\* this.currentService = service.
sendHeartbeat(service, inFlight) ==
    IF Len(service) = 0 THEN inFlight
    ELSE inFlight (+) SetToBag(
             {[operation |-> "heartbeat", name |-> service[1].name,
               port |-> service[1].port,
               heartbeatInterval |-> service[1].heartbeatInterval]})

\* Mutant: the period of the interval is the configured default.
startHeartbeat_DefaultPeriod(service, inFlight) ==
    LET running == clearInterval(timers, heartbeatTimer)
    IN  IF Len(service) = 0
        THEN /\ timers' = running
             /\ requests' = inFlight
             /\ UNCHANGED heartbeatTimer
        ELSE LET interval == options.defaultHeartbeatInterval * 1000
                 timer == [period |-> interval, startedAt |-> clientNow]
             IN  /\ timers' = running (+) SetToBag({timer})
                 /\ heartbeatTimer' = <<timer>>
                 /\ requests' = sendHeartbeat(service, inFlight)

\* Mutant: the interval that is running is not cleared.
startHeartbeat_KeepsRunning(service, inFlight) ==
    IF Len(service) = 0
    THEN /\ requests' = inFlight
         /\ UNCHANGED <<timers, heartbeatTimer>>
    ELSE LET interval == service[1].heartbeatInterval * 1000
             timer == [period |-> interval, startedAt |-> clientNow]
         IN  /\ timers' = timers (+) SetToBag({timer})
             /\ heartbeatTimer' = <<timer>>
             /\ requests' = sendHeartbeat(service, inFlight)

\* _startHeartbeat() with this.currentService = service.
startHeartbeat(service, inFlight) ==
    LET running == clearInterval(timers, heartbeatTimer)
    IN  IF Len(service) = 0
        THEN /\ timers' = running
             /\ requests' = inFlight
             /\ UNCHANGED heartbeatTimer
        ELSE LET interval == service[1].heartbeatInterval * 1000
                 timer == [period |-> interval, startedAt |-> clientNow]
             IN  /\ timers' = running (+) SetToBag({timer})
                 /\ heartbeatTimer' = <<timer>>
                 /\ requests' = sendHeartbeat(service, inFlight)

\* register up to its await.
register(serviceName, servicePort) ==
    /\ BagCardinality(requests) < MaxRequests
    /\ requests' = requests (+) SetToBag(
           {[operation |-> "register", name |-> serviceName,
             port |-> servicePort,
             heartbeatInterval |-> options.defaultHeartbeatInterval]})
    /\ UNCHANGED <<currentService, heartbeatTimer, isRegistered, timers,
                   settled>>
    /\ UNCHANGED <<clientNow, options, serviceCache, fetching, resolved>>
    /\ UNCHANGED <<breakerVars, registryVars, orchestratorVars>>

\* POST /register is answered.
RegisterResolvesBody(call, response) ==
    /\ call \in BagToSet(requests)
    /\ call.operation = "register"
    /\ currentService' = <<[id |-> response.id, name |-> call.name,
                            port |-> call.port,
                            heartbeatInterval |-> response.heartbeatInterval]>>
    /\ isRegistered' = TRUE
    /\ startHeartbeat(currentService', requests (-) SetToBag({call}))
    /\ settled' = Settled("register", "value",
                          "Service registered: " \o response.id)
    /\ UNCHANGED <<clientNow, options, serviceCache, fetching, resolved>>

RegisterResolves(call, response) ==
    /\ RegisterResolvesBody(call, response)
    /\ UNCHANGED <<breakerVars, registryVars, orchestratorVars>>

\* POST /register fails: the error leaves register.
RegisterRejects(call) ==
    /\ call \in BagToSet(requests)
    /\ call.operation = "register"
    /\ requests' = requests (-) SetToBag({call})
    /\ settled' = Settled("register", "error", "Request failed")
    /\ UNCHANGED <<currentService, heartbeatTimer, isRegistered, timers>>
    /\ UNCHANGED <<clientNow, options, serviceCache, fetching, resolved>>
    /\ UNCHANGED <<breakerVars, registryVars, orchestratorVars>>

\* An interval set by _startHeartbeat fires, one period after it was set at
\* the earliest; its callback calls _sendHeartbeat.
TimerFires(timer) ==
    /\ timer \in BagToSet(timers)
    /\ clientNow >= timer.startedAt + timer.period
    /\ BagCardinality(requests) < MaxRequests
    /\ requests' = sendHeartbeat(currentService, requests)
    /\ UNCHANGED <<currentService, heartbeatTimer, isRegistered, timers,
                   settled>>
    /\ UNCHANGED <<clientNow, options, serviceCache, fetching, resolved>>
    /\ UNCHANGED <<breakerVars, registryVars, orchestratorVars>>

\* POST /heartbeat is answered: the log line reads this.currentService.id,
\* and the TypeError of a null currentService is caught like a failure.
HeartbeatResolvesBody(call) ==
    /\ call \in BagToSet(requests)
    /\ call.operation = "heartbeat"
    /\ requests' = requests (-) SetToBag({call})
    /\ settled' = Settled("heartbeat", "value",
                          IF Len(currentService) = 0 THEN "Heartbeat failed"
                          ELSE "Heartbeat sent")
    /\ UNCHANGED <<currentService, heartbeatTimer, isRegistered, timers>>
    /\ UNCHANGED <<clientNow, options, serviceCache, fetching, resolved>>

HeartbeatResolves(call) ==
    /\ HeartbeatResolvesBody(call)
    /\ UNCHANGED <<breakerVars, registryVars, orchestratorVars>>

\* Mutant: a failed heartbeat stops the interval.
HeartbeatRejects_StopsLoop(call) ==
    /\ call \in BagToSet(requests)
    /\ call.operation = "heartbeat"
    /\ requests' = requests (-) SetToBag({call})
    /\ settled' = Settled("heartbeat", "value", "Heartbeat failed")
    /\ timers' = clearInterval(timers, heartbeatTimer)
    /\ heartbeatTimer' = <<>>
    /\ UNCHANGED <<currentService, isRegistered>>
    /\ UNCHANGED <<clientNow, options, serviceCache, fetching, resolved>>
    /\ UNCHANGED <<breakerVars, registryVars, orchestratorVars>>

\* POST /heartbeat fails: the error is logged.
HeartbeatRejects(call) ==
    /\ call \in BagToSet(requests)
    /\ call.operation = "heartbeat"
    /\ requests' = requests (-) SetToBag({call})
    /\ settled' = Settled("heartbeat", "value", "Heartbeat failed")
    /\ UNCHANGED <<currentService, heartbeatTimer, isRegistered, timers>>
    /\ UNCHANGED <<clientNow, options, serviceCache, fetching, resolved>>
    /\ UNCHANGED <<breakerVars, registryVars, orchestratorVars>>

\* Mutant: the handle is dropped and the interval keeps running.
cleanup_KeepsInterval ==
    /\ timers' = timers
    /\ heartbeatTimer' = <<>>
    /\ currentService' = <<>>
    /\ isRegistered' = FALSE
    /\ serviceCache' = <<>>

\* _cleanup
cleanup ==
    /\ timers' = clearInterval(timers, heartbeatTimer)
    /\ heartbeatTimer' = <<>>
    /\ currentService' = <<>>
    /\ isRegistered' = FALSE
    /\ serviceCache' = <<>>

\* Mutant: a client that is not registered cleans up all the same.
unregister_CleansUpAnyway ==
    /\ IF Len(currentService) = 0 \/ ~isRegistered
       THEN /\ settled' = Settled("unregister", "value",
                                  "No service registered, nothing to unregister")
            /\ cleanup
            /\ UNCHANGED requests
       ELSE /\ BagCardinality(requests) < MaxRequests
            /\ requests' = requests (+) SetToBag(
                   {[operation |-> "unregister",
                     name |-> currentService[1].name,
                     port |-> ToString(currentService[1].port)]})
            /\ UNCHANGED <<settled, currentService, heartbeatTimer,
                           isRegistered, timers, serviceCache>>
    /\ UNCHANGED <<clientNow, options, fetching, resolved>>
    /\ UNCHANGED <<breakerVars, registryVars, orchestratorVars>>

\* unregister up to its return or its await.
unregister ==
    /\ IF Len(currentService) = 0 \/ ~isRegistered
       THEN /\ settled' = Settled("unregister", "value",
                                  "No service registered, nothing to unregister")
            /\ UNCHANGED requests
       ELSE /\ BagCardinality(requests) < MaxRequests
            /\ requests' = requests (+) SetToBag(
                   {[operation |-> "unregister",
                     name |-> currentService[1].name,
                     port |-> ToString(currentService[1].port)]})
            /\ UNCHANGED settled
    /\ UNCHANGED <<currentService, heartbeatTimer, isRegistered, timers>>
    /\ UNCHANGED <<clientNow, options, serviceCache, fetching, resolved>>
    /\ UNCHANGED <<breakerVars, registryVars, orchestratorVars>>

\* DELETE /services/:name/:port is answered: the log line reads
\* this.currentService.id, and the TypeError of a null currentService is
\* caught like a failure.  Then the finally block.
UnregisterResolvesBody(call) ==
    /\ call \in BagToSet(requests)
    /\ call.operation = "unregister"
    /\ requests' = requests (-) SetToBag({call})
    /\ cleanup
    /\ settled' = Settled("unregister", "value",
                          IF Len(currentService) = 0
                          THEN "Failed to unregister service"
                          ELSE "Service unregistered")
    /\ UNCHANGED <<clientNow, options, fetching, resolved>>

UnregisterResolves(call) ==
    /\ UnregisterResolvesBody(call)
    /\ UNCHANGED <<breakerVars, registryVars, orchestratorVars>>

\* DELETE /services/:name/:port fails: the error is logged.  Then the finally
\* block.
UnregisterRejectsBody(call) ==
    /\ call \in BagToSet(requests)
    /\ call.operation = "unregister"
    /\ requests' = requests (-) SetToBag({call})
    /\ cleanup
    /\ settled' = Settled("unregister", "value", "Failed to unregister service")
    /\ UNCHANGED <<clientNow, options, fetching, resolved>>

UnregisterRejects(call) ==
    /\ UnregisterRejectsBody(call)
    /\ UNCHANGED <<breakerVars, registryVars, orchestratorVars>>

\* ------------------------------------------------------------ specification
\* new ServiceDiscoveryClient(discoveryServerUrl, options)
ConstructedClient ==
    /\ clientNow = 0
    /\ options \in ClientOptions
    /\ serviceCache = <<>>
    /\ fetching = EmptyBag
    /\ resolved = NothingResolved
    /\ NeverRegistered

\* The client of a program without breakers, and no registry process.
InitClient ==
    /\ BreakersAbsent
    /\ OrchestratorAbsent
    /\ RegistryAbsent
    /\ ConstructedClient

NextClient ==
    \/ ClientTick
    \/ clearCache
    \/ \E serviceName \in PeerNames : getServiceUrl(serviceName)
    \/ \E call \in BagToSet(fetching) :
          \E freshServices \in RegistryAnswers(call.serviceName) :
              FetchResolves(call, freshServices)
    \/ \E call \in BagToSet(fetching) : FetchRejects(call)

SpecClient == InitClient /\ [][NextClient]_vars

\* The answers of GET /services/:name that list every instance of the peer,
\* or none.
AllOrNone(serviceName) ==
    {answer \in RegistryAnswers(serviceName) : Len(answer) # 1}

\* A client whose application registers, resolves peers and unregisters.  It
\* awaits one getServiceUrl call before it makes the next, and the registry
\* lists all instances of a peer or none; SpecClient has the concurrent calls
\* and the other answers.
NextRegistration ==
    \/ ClientTick
    \/ clearCache
    \/ \E serviceName \in PeerNames :
          fetching = EmptyBag /\ getServiceUrl(serviceName)
    \/ \E call \in BagToSet(fetching) :
          \E freshServices \in AllOrNone(call.serviceName) :
              FetchResolves(call, freshServices)
    \/ \E call \in BagToSet(fetching) : FetchRejects(call)
    \/ \E r \in Registrations : register(r.serviceName, r.servicePort)
    \/ \E call \in {c \in BagToSet(requests) : c.operation = "register"} :
          \E response \in RegisterAnswers(call) : RegisterResolves(call, response)
    \/ \E call \in BagToSet(requests) : RegisterRejects(call)
    \/ \E timer \in BagToSet(timers) : TimerFires(timer)
    \/ \E call \in BagToSet(requests) : HeartbeatResolves(call)
    \/ \E call \in BagToSet(requests) : HeartbeatRejects(call)
    \/ unregister
    \/ \E call \in BagToSet(requests) : UnregisterResolves(call)
    \/ \E call \in BagToSet(requests) : UnregisterRejects(call)

SpecRegistration == InitClient /\ [][NextRegistration]_vars
\* --------------------------------------------------------- claims, the client
\* The URLs of the instances of a list.
UrlsOf(instances) ==
    {(IF \E k \in 1..Len(instances[i].ip) : SubSeq(instances[i].ip, k, k) = ":"
      THEN "http://[" \o instances[i].ip \o "]:"
      ELSE "http://" \o instances[i].ip \o ":") \o ToString(instances[i].port) :
        i \in 1..Len(instances)}

\* C19: a getServiceUrl(name) call made while the cache holds an entry for the
\* name and now < expiresAt returns the URL of one of the entry's instances,
\* sends no request to the registry and leaves the cache as it is.
C19_ValidCacheServesWithoutFetch ==
    [][\A serviceName \in PeerNames :
          (/\ getServiceUrl(serviceName)
           /\ has(serviceCache, serviceName)
           /\ clientNow < get(serviceCache, serviceName).expiresAt)
          => /\ fetching' = fetching
             /\ serviceCache' = serviceCache
             /\ resolved'.serviceName = serviceName
             /\ resolved'.kind = "value"
             /\ resolved'.value \in UrlsOf(get(serviceCache, serviceName).services)]_vars

\* A call was served from an entry of two instances stored at an earlier
\* instant, and no call awaits the registry.
C19_Witness ==
    \E serviceName \in PeerNames :
        /\ resolved.serviceName = serviceName
        /\ resolved.via = "cache"
        /\ has(serviceCache, serviceName)
        /\ Len(get(serviceCache, serviceName).services) = 2
        /\ get(serviceCache, serviceName).cachedAt < clientNow
        /\ resolved.value = "http://[::1]:4001"
        /\ fetching = EmptyBag

\* C20: when a getServiceUrl(name) call found an entry for the name that had
\* expired, and its request to the registry fails or is answered with no
\* instance, the call returns the URL of one of the instances of that entry
\* and does not throw.
C20_StaleEntryServedOnFailure ==
    [][\A call \in BagToSet(fetching) :
          (/\ Len(call.cachedServices) > 0
           /\ FetchRejects(call) \/ FetchResolves(call, <<>>))
          => /\ resolved'.serviceName = call.serviceName
             /\ resolved'.kind = "value"
             /\ resolved'.value \in UrlsOf(call.cachedServices)
             /\ serviceCache' = serviceCache]_vars

\* A call was served from an entry that is still in the cache and expired.
C20_Witness ==
    \E serviceName \in PeerNames :
        /\ resolved.serviceName = serviceName
        /\ resolved.via = "stale"
        /\ resolved.kind = "value"
        /\ has(serviceCache, serviceName)
        /\ clientNow >= get(serviceCache, serviceName).expiresAt
        /\ resolved.value \in UrlsOf(get(serviceCache, serviceName).services)

\* C21: when a getServiceUrl(name) call found no entry for the name, and its
\* request to the registry fails or is answered with no instance, the call
\* throws the error "No instances available for service: <name>" and the
\* cache is left as it is, so no entry is created.
C21_NoEntryNoInstancesThrows ==
    [][\A call \in BagToSet(fetching) :
          (/\ Len(call.cachedServices) = 0
           /\ FetchRejects(call) \/ FetchResolves(call, <<>>))
          => /\ resolved'.serviceName = call.serviceName
             /\ resolved'.kind = "error"
             /\ resolved'.value =
                    "No instances available for service: " \o call.serviceName
             /\ serviceCache' = serviceCache
             /\ ~has(serviceCache, call.serviceName)
                    => ~has(serviceCache', call.serviceName)]_vars

\* A call that found no entry has thrown, and the cache holds no entry.
C21_Witness ==
    \E serviceName \in PeerNames :
        /\ resolved.serviceName = serviceName
        /\ resolved.via = "none"
        /\ resolved.kind = "error"
        /\ ~has(serviceCache, serviceName)

\* C22: every entry of the cache has expiresAt = cachedAt + the smallest
\* heartbeatInterval of its services * cacheMultiplier * 1000, whatever
\* getServiceUrl, clearCache, register and unregister calls were made.
C22_ExpiresAtFromMinInterval ==
    \A i \in 1..Len(serviceCache) :
        LET entry == serviceCache[i].value
        IN  /\ Len(entry.services) > 0
            /\ \E k \in 1..Len(entry.services) :
                  /\ \A j \in 1..Len(entry.services) :
                        entry.services[k].heartbeatInterval
                            <= entry.services[j].heartbeatInterval
                  /\ entry.expiresAt =
                        entry.cachedAt
                        + entry.services[k].heartbeatInterval
                          * options.cacheMultiplier * 1000

\* The entry of a name in a cache, <<>> when there is none.
EntryOf(cache, serviceName) ==
    IF has(cache, serviceName) THEN <<get(cache, serviceName)>> ELSE <<>>

\* C23: the entry of a name is created or overwritten only by the step in
\* which a request to the registry for that name is answered with at least
\* one instance.  A failed request, a request answered with no instance and a
\* getServiceUrl call served from the cache leave the whole cache, and so the
\* entry's services, cachedAt and expiresAt, unchanged; and no entry holds an
\* empty list.  Calls for the same name may await the registry together.
C23_OnlyNonEmptyFetchWritesEntry ==
    [][/\ \A serviceName \in PeerNames :
            (/\ has(serviceCache', serviceName)
             /\ EntryOf(serviceCache', serviceName)
                    # EntryOf(serviceCache, serviceName))
            => \E call \in BagToSet(fetching) :
                   \E freshServices \in RegistryAnswers(serviceName) :
                       /\ call.serviceName = serviceName
                       /\ Len(freshServices) > 0
                       /\ FetchResolves(call, freshServices)
                       /\ get(serviceCache', serviceName).services = freshServices
       /\ \A call \in BagToSet(fetching) :
            (FetchRejects(call) \/ FetchResolves(call, <<>>))
            => serviceCache' = serviceCache
       /\ \A serviceName \in PeerNames :
            (getServiceUrl(serviceName) /\ resolved' # resolved)
            => serviceCache' = serviceCache
       /\ \A i \in 1..Len(serviceCache') :
            Len(serviceCache'[i].value.services) > 0]_vars

\* A call was answered from the list it had read while the entry of its name
\* is a newer one that has not expired: another call for the same name
\* refreshed the entry while this one awaited the registry, and this one's
\* failure left the new entry in place.
C23_Witness ==
    \E serviceName \in PeerNames :
        /\ resolved.serviceName = serviceName
        /\ resolved.via = "stale"
        /\ has(serviceCache, serviceName)
        /\ clientNow < get(serviceCache, serviceName).expiresAt
        /\ get(serviceCache, serviceName).cachedAt = clientNow

\* C24: when the DELETE request of an unregister() call made by a registered
\* client is answered or fails, the call returns without throwing, and then
\* no interval runs, heartbeatTimer and currentService are null,
\* isRegistered is false and the cache is empty.
C24_UnregisterAlwaysCleansUp ==
    [][\A call \in BagToSet(requests) :
          (UnregisterResolves(call) \/ UnregisterRejects(call))
          => /\ settled'.operation = "unregister"
             /\ settled'.kind = "value"
             /\ timers' = EmptyBag
             /\ heartbeatTimer' = <<>>
             /\ currentService' = <<>>
             /\ isRegistered' = FALSE
             /\ serviceCache' = <<>>]_vars

\* The DELETE request of a registered client failed: the call returned, the
\* client had a cache entry and an interval before, and has none now.
C24_Witness ==
    /\ settled.operation = "unregister"
    /\ settled.value = "Failed to unregister service"
    /\ resolved.via = "fresh"
    /\ serviceCache = <<>>
    /\ timers = EmptyBag
    /\ currentService = <<>>
    /\ ~isRegistered

\* C25: an unregister() call made while currentService is null or
\* isRegistered is false sends no request, changes no field of the client,
\* no interval and no cache entry, and returns without throwing.
C25_UnregisterUnregisteredIsNoOp ==
    [][(unregister /\ (Len(currentService) = 0 \/ ~isRegistered))
       => /\ requests' = requests
          /\ UNCHANGED <<currentService, heartbeatTimer, isRegistered, timers>>
          /\ UNCHANGED <<serviceCache, fetching, options>>
          /\ settled'.operation = "unregister"
          /\ settled'.kind = "value"]_vars

\* An unregister() call found nothing to unregister while a heartbeat of the
\* client still awaits the registry, so the client had registered and an
\* earlier unregister() had cleaned up; the cache has been filled since.
C25_Witness ==
    /\ settled.operation = "unregister"
    /\ settled.value = "No service registered, nothing to unregister"
    /\ \E call \in BagToSet(requests) : call.operation = "heartbeat"
    /\ ~isRegistered
    /\ serviceCache # <<>>

\* The heartbeat request _sendHeartbeat posts for a registration.
HeartbeatOf(service) ==
    [operation |-> "heartbeat", name |-> service.name, port |-> service.port,
     heartbeatInterval |-> service.heartbeatInterval]

\* C26: a heartbeat request that fails leaves the interval running and
\* currentService, isRegistered and heartbeatTimer as they are, and
\* _sendHeartbeat returns without throwing; a registered client always has
\* its interval running; and each firing of the interval of a registered
\* client sends one more heartbeat request for the registration.
C26_FailedHeartbeatKeepsLoop ==
    [][/\ \A call \in BagToSet(requests) :
            HeartbeatRejects(call)
            => /\ UNCHANGED <<timers, heartbeatTimer, currentService,
                              isRegistered>>
               /\ settled'.operation = "heartbeat"
               /\ settled'.kind = "value"
       /\ isRegistered'
            => /\ Len(heartbeatTimer') = 1
               /\ BagIn(heartbeatTimer'[1], timers')
       /\ \A timer \in BagToSet(timers) :
            (TimerFires(timer) /\ isRegistered)
            => requests' = requests
                   (+) SetToBag({HeartbeatOf(currentService[1])})]_vars

\* A heartbeat of a registered client has failed, its interval runs, and two
\* more heartbeats await the registry at the same instant.
C26_Witness ==
    /\ settled.operation = "heartbeat"
    /\ settled.value = "Heartbeat failed"
    /\ isRegistered
    /\ timers # EmptyBag
    /\ BagCardinality(requests) = 2
    /\ \A call \in BagToSet(requests) : call.operation = "heartbeat"

\* C27: the step in which POST /register is answered sends one heartbeat
\* request, and that request, the period of the interval set in the same
\* step and the registration the client keeps all carry the interval of the
\* answer; afterwards every running interval has that period, and every
\* firing sends a heartbeat with the interval of the registration.  The
\* configured defaultHeartbeatInterval is used for none of them.
C27_HeartbeatsUseReturnedInterval ==
    [][/\ \A call \in BagToSet(requests) :
            call.operation = "register"
            => \A response \in RegisterAnswers(call) :
                   RegisterResolves(call, response)
                   => /\ requests' = (requests (-) SetToBag({call})) (+)
                            SetToBag({[operation |-> "heartbeat",
                                       name |-> call.name, port |-> call.port,
                                       heartbeatInterval |->
                                           response.heartbeatInterval]})
                      /\ heartbeatTimer'[1].period =
                            response.heartbeatInterval * 1000
                      /\ heartbeatTimer'[1].startedAt = clientNow
                      /\ currentService'[1].heartbeatInterval =
                            response.heartbeatInterval
                      /\ settled'.kind = "value"
       /\ \A timer \in BagToSet(timers') :
            /\ Len(currentService') = 1
            /\ timer.period = currentService'[1].heartbeatInterval * 1000
       /\ \A timer \in BagToSet(timers) :
            TimerFires(timer)
            => \A call \in BagToSet(requests') :
                   (call.operation = "heartbeat"
                    /\ CopiesIn(call, requests') > CopiesIn(call, requests))
                   => call.heartbeatInterval
                          = currentService[1].heartbeatInterval]_vars

\* A client configured with an interval of 30 registered and was answered
\* with the interval 1: the heartbeat sent at once and the heartbeat of a
\* firing, one period later at the earliest, both carry 1.
C27_Witness ==
    /\ isRegistered
    /\ options.defaultHeartbeatInterval = 30
    /\ currentService[1].heartbeatInterval = 1
    /\ heartbeatTimer[1].period = 1000
    /\ clientNow >= heartbeatTimer[1].startedAt + 1000
    /\ CopiesIn([operation |-> "heartbeat", name |-> "api-gateway",
                 port |-> 8000, heartbeatInterval |-> 1], requests) = 2

(***************************************************************************)
(* The API gateway (api-gateway.app.ts): fetchUsersFromService resolves    *)
(* its peer with getServiceUrl and then requests the peer, and runs under   *)
(* the breaker of protectedFetchUsers.  The run of one event goes on over   *)
(* every await that does not wait for a request, so the breaker's prefix    *)
(* and getServiceUrl's prefix are one step, and so are the answer of the    *)
(* registry and what fetchUsersFromService and the breaker do with it.  A   *)
(* call of the original method awaits the registry while its getServiceUrl  *)
(* call is in fetching, and the peer afterwards.  The gateway makes one     *)
(* call at a time.  now and clientNow are the clock of the one process as   *)
(* the breaker and the client read it, in their units.                      *)
(***************************************************************************)

\* The breaker of protectedFetchUsers.
FetchUsers == "fetchUsersFromService"

\* protectedFetchUsers(): the breaker's prefix and, with the circuit closed,
\* fetchUsersFromService up to the await inside getServiceUrl or, when the
\* cache served the URL, up to the await of the request to the peer.
protectedFetchUsers ==
    /\ pending = EmptyBag
    /\ executeWithCircuitBreakerBody(circuitBreaker(FetchUsers), FetchUsers, <<>>)
    /\ IF AfterRecoveryCheck(breakers[FetchUsers], configuration[FetchUsers],
                             now).isCircuitCurrentlyOpen
       THEN UNCHANGED clientVars
       ELSE getServiceUrlBody("user-service")
    /\ UNCHANGED <<registryVars, orchestratorVars>>

\* Mutant: the error of getServiceUrl is answered with the fallback's result
\* and not counted.
AfterGetServiceUrl_Uncounted ==
    IF resolved'.kind = "error"
    THEN \E c \in BagToSet(pending) :
             /\ pending' = pending (-) SetToBag({c})
             /\ returned' = [breaker |-> c.breaker,
                             methodArguments |-> c.methodArguments,
                             via |-> "rejected", trial |-> c.trial,
                             outcome |-> CatchResult(c.breaker, c.methodArguments)]
             /\ UNCHANGED <<now, configuration, fallbackMethodToCall, breakers,
                            observed, latestFailures>>
    ELSE UNCHANGED breakerVars

\* What fetchUsersFromService and the breaker do when getServiceUrl ends: a
\* thrown error leaves fetchUsersFromService and reaches the catch branch of
\* the breaker, a URL is requested and the call awaits the peer.
AfterGetServiceUrl ==
    IF resolved'.kind = "error"
    THEN \E c \in BagToSet(pending) : OriginalMethodRejectsBody(c)
    ELSE UNCHANGED breakerVars

\* GET /services/user-service is answered.
RegistryAnswersGateway(call, freshServices) ==
    /\ FetchResolvesBody(call, freshServices)
    /\ AfterGetServiceUrl
    /\ UNCHANGED <<registryVars, orchestratorVars>>

\* GET /services/user-service fails.
RegistryFailsGateway(call) ==
    /\ FetchRejectsBody(call)
    /\ AfterGetServiceUrl
    /\ UNCHANGED <<registryVars, orchestratorVars>>

\* GET <url>/users is answered: fetchUsersFromService returns.
PeerAnswers(c) ==
    /\ fetching = EmptyBag
    /\ OriginalMethodResolves(c)

\* GET <url>/users fails: fetchUsersFromService throws.
PeerFails(c) ==
    /\ fetching = EmptyBag
    /\ OriginalMethodRejects(c)

\* The gateway's client (lines 20-24) and protectedFetchUsers (lines 95-103):
\* a threshold, window = reset, and getUsersFallback.
InitGateway ==
    /\ OrchestratorAbsent
    /\ ConstructedBreakers({FetchUsers})
    /\ latestFailures = <<>>
    /\ configuration[FetchUsers].timeWindowInMilliseconds
           = configuration[FetchUsers].resetTimeoutInMilliseconds
    /\ fallbackMethodToCall[FetchUsers] = "fallbackMethod"
    /\ ConstructedClient
    /\ options.cacheMultiplier = 2
    /\ RegistryAbsent

NextGateway ==
    \/ Tick
    \/ ClientTick
    \/ protectedFetchUsers
    \/ \E call \in BagToSet(fetching) :
          \E freshServices \in RegistryAnswers(call.serviceName) :
              RegistryAnswersGateway(call, freshServices)
    \/ \E call \in BagToSet(fetching) : RegistryFailsGateway(call)
    \/ \E c \in BagToSet(pending) : PeerAnswers(c)
    \/ \E c \in BagToSet(pending) : PeerFails(c)

SpecGateway == InitGateway /\ [][NextGateway]_vars

\* The step records a failure of the call of fetchUsersFromService that was
\* awaited, at the time the call was made, and returns the result of
\* getUsersFallback to the caller of protectedFetchUsers.
RecordedAndAnsweredByFallback ==
    \E c \in BagToSet(pending) :
        /\ breakers'[FetchUsers].failureTimestampsWithinWindow =
               Append(breakers[FetchUsers].failureTimestampsWithinWindow,
                      c.currentTimestamp)
        /\ pending' = pending (-) SetToBag({c})
        /\ returned'.breaker = FetchUsers
        /\ returned'.via = "rejected"
        /\ returned'.outcome = [kind |-> "value", value |-> <<"fallback", <<>>>>]

\* C28: protectedFetchUsers, whose operation resolves its peer with
\* getServiceUrl and whose fallback does not throw, never throws to its
\* caller; a failed request to the registry and an empty answer of the
\* registry, each with no cached instances, and a failed request to the peer
\* are each recorded as a failure of the breaker and answered with the
\* fallback's result.
C28_ProtectedFetchNeverThrows ==
    [][/\ returned'.outcome.kind = "value"
       /\ \A call \in BagToSet(fetching) :
            (/\ Len(call.cachedServices) = 0
             /\ \/ RegistryFailsGateway(call)
                \/ RegistryAnswersGateway(call, <<>>))
            => /\ resolved'.kind = "error"
               /\ RecordedAndAnsweredByFallback
       /\ \A c \in BagToSet(pending) :
            PeerFails(c) => RecordedAndAnsweredByFallback]_vars

\* The registry could not be reached and the cache held nothing: the error
\* of getServiceUrl was counted as the second failure of the breaker, and
\* the caller got the fallback's result.
C28_Witness ==
    /\ FetchUsers \in DOMAIN breakers
    /\ resolved.kind = "error"
    /\ resolved.value = "No instances available for service: user-service"
    /\ serviceCache = <<>>
    /\ returned.via = "rejected"
    /\ returned.outcome = [kind |-> "value", value |-> <<"fallback", <<>>>>]
    /\ Len(breakers[FetchUsers].failureTimestampsWithinWindow) = 2

\* C29: a call made to an open breaker before nextAllowedAttemptTime is
\* served by the fallback and leaves nextAllowedAttemptTime and
\* isCircuitCurrentlyOpen as they are; no step moves nextAllowedAttemptTime
\* of a breaker that stays open; and a call made to an open breaker at or
\* after nextAllowedAttemptTime starts the original method.
C29_OpenBreakerLetsTrialThrough ==
    [][/\ \A o \in DOMAIN breakers, a \in Args :
            (/\ breakers[o].isCircuitCurrentlyOpen
             /\ now < breakers[o].nextAllowedAttemptTime
             /\ CallOf(o, a))
            => /\ returned'.outcome = FallbackResult(o, a)
               /\ pending' = pending
               /\ breakers'[o].isCircuitCurrentlyOpen
               /\ breakers'[o].nextAllowedAttemptTime =
                     breakers[o].nextAllowedAttemptTime
       /\ \A o \in DOMAIN breakers :
            (breakers[o].isCircuitCurrentlyOpen
             /\ breakers'[o].isCircuitCurrentlyOpen)
            => breakers'[o].nextAllowedAttemptTime =
                   breakers[o].nextAllowedAttemptTime
       /\ \A o \in DOMAIN breakers, a \in Args :
            (/\ breakers[o].isCircuitCurrentlyOpen
             /\ now >= breakers[o].nextAllowedAttemptTime
             /\ CallOf(o, a))
            => /\ ~breakers'[o].isCircuitCurrentlyOpen
               /\ \E c \in BagToSet(pending') :
                     /\ c.breaker = o
                     /\ c.currentTimestamp = now
                     /\ c.trial
                     /\ pending' = pending (+) SetToBag({c})]_vars

\* The call made at the reset time of a breaker that had been opened awaits
\* its original method, and the breaker is no longer open.
C29_Witness ==
    \E o \in DOMAIN breakers :
        /\ ~breakers[o].isCircuitCurrentlyOpen
        /\ breakers[o].nextAllowedAttemptTime > 0
        /\ \E c \in BagToSet(pending) :
              /\ c.breaker = o
              /\ c.trial
              /\ c.currentTimestamp = breakers[o].nextAllowedAttemptTime
              /\ c.currentTimestamp = now

\* C30: when at least maximumFailuresAllowed calls made within the last
\* timeWindowInMilliseconds have failed, whether or not other calls succeeded
\* in between, a call made less than resetTimeoutInMilliseconds after the
\* latest of them returns the fallback's result and starts no call of the
\* original method.
C30_RollingWindowCountsAllFailures ==
    [][\A o \in DOMAIN latestFailures, a \in Args :
        (/\ Len(latestFailures[o]) >= configuration[o].maximumFailuresAllowed
         /\ \A i \in DOMAIN latestFailures[o] :
                latestFailures[o][i]
                    > now - configuration[o].timeWindowInMilliseconds
         /\ now < latestFailures[o][1]
                      + configuration[o].resetTimeoutInMilliseconds
         /\ CallOf(o, a))
        => ServedByFallback(o, a)]_vars

\* =============================================== the claims about the whole
\* The ids of the instances a store holds.
StoredIds(store) ==
    UNION {{entry.key : entry \in Elements(get(store, name))} :
               name \in StoredNames(store)}

\* The request just handled was an accepted register or heartbeat of the
\* instance id.
RegisteredOrBeat(exchange, id) ==
    /\ exchange.request.method \in {"POST /register", "POST /heartbeat"}
    /\ exchange.status = 200
    /\ createServiceId(exchange.request.name, exchange.request.ip,
                       exchange.request.port) = id

\* C31: a sweep that runs when now - lastHeartbeat of a stored instance
\* exceeds heartbeatInterval * 1500 ms removes that instance, and an instance
\* the store does not hold enters it only by an accepted register or
\* heartbeat for its name, ip and port.
C31_SilentInstanceSweptAndStaysAbsent ==
    [][/\ CleanupSweep =>
              \A name \in StoredNames(services) :
                  \A entry \in Elements(get(services, name)) :
                      registryNow - entry.value.lastHeartbeat
                              > entry.value.heartbeatInterval * 1500
                          => entry.key \notin StoredIds(services')
       /\ \A id \in StoredIds(services') \ StoredIds(services) :
              RegisteredOrBeat(handled', id)]_vars

\* A sweep removed an instance of the second group while it left the store
\* with the first group, whose instance had sent a heartbeat later.
C31_Witness ==
    /\ handled.request.method = "setInterval cleanup"
    /\ handled.body.removedCount >= 1
    /\ StoredNames(services) = {"svc-a"}
    /\ \E p \in registrants :
          /\ p.name = "svc-b"
          /\ createServiceId(p.name, p.ip, p.port) \notin StoredIds(services)

\* ================================================= the registry and a client
(***************************************************************************)
(* The registry and a discovery client in one run.  Both read the same wall *)
(* clock, so the two Date.now() move together.  A request is on its way for *)
(* as long as it is in the client's bag; the registry's handler and the     *)
(* continuation of the client's call that receives the response are one     *)
(* step.                                                                    *)
(***************************************************************************)
\* The wall clock moves on for the registry and for the client.
WallClockTick ==
    /\ RegistryTickBody
    /\ ClientTickBody
    /\ UNCHANGED <<breakerVars, orchestratorVars>>

\* The instance of a peer the client resolves: it registers itself and sends
\* heartbeats with an interval of one second.
Peers == {[name |-> "user-service", ip |-> "10.0.0.1", port |-> 4000]}

\* GET /services/:name of _fetchServices is handled and its response is
\* received by the getServiceUrl call that awaits it.
Lookup(call) ==
    /\ GetServicesByNameBody(call.serviceName)
    /\ FetchResolvesBody(call, handled'.body.services)
    /\ UNCHANGED <<breakerVars, orchestratorVars>>

\* A registry without instances and a client with the default options.
InitLookup ==
    /\ BreakersAbsent
    /\ OrchestratorAbsent
    /\ registryNow = 0
    /\ services = <<>>
    /\ registrants = Peers
    /\ handled = NothingHandled
    /\ kept = <<>>
    /\ ConstructedClient
    /\ options.cacheMultiplier = 2

NextLookup ==
    \/ WallClockTick
    \/ CleanupSweep
    \/ \E p \in registrants :
          PostRegister(p.ip, [name |-> p.name, port |-> p.port,
                              heartbeatInterval |-> <<1>>])
    \/ \E p \in registrants :
          PostHeartbeat(p.ip, [name |-> p.name, port |-> p.port,
                               heartbeatInterval |-> <<1>>])
    \/ \E serviceName \in PeerNames : getServiceUrl(serviceName)
    \/ \E call \in BagToSet(fetching) : Lookup(call)
    \/ \E call \in BagToSet(fetching) : FetchRejects(call)

SpecLookup == InitLookup /\ [][NextLookup]_vars

\* C32: with the default cacheMultiplier of 2, a URL that getServiceUrl
\* returns from a cache entry that has not expired is the URL of an instance
\* that passes the registry's liveness predicate at that time.
C32_ValidCacheHoldsOnlyLiveInstances ==
    \A serviceName \in PeerNames :
        (resolved.via = "cache" /\ resolved.serviceName = serviceName)
            => resolved.value
                   \in UrlsOf(aliveServices(services, serviceName, registryNow))

\* C33: an accepted heartbeat for a stored instance that carries a
\* heartbeatInterval different from the stored one makes the stored
\* heartbeatInterval and the returned nextHeartbeatIn the new value.
C33_HeartbeatAdjustsInterval ==
    [][\A p \in registrants, h \in HeartbeatIntervals :
        LET id == createServiceId(p.name, p.ip, p.port)
            body == [name |-> p.name, port |-> p.port, heartbeatInterval |-> h]
        IN  (/\ Len(h) = 1
             /\ id \in StoredIds(services)
             /\ get(get(services, p.name), id).heartbeatInterval # h[1]
             /\ PostHeartbeat(p.ip, body))
            => /\ get(get(services', p.name), id).heartbeatInterval = h[1]
               /\ handled'.body.nextHeartbeatIn = h[1]]_vars

\* ================================================ the Level 1 client
(***************************************************************************)
(* The JavaScript ServiceDiscoveryClient of Level 1 (src/unnamed/part_004). *)
(* Its cache, _isCacheValid, _updateCache and the code of getServiceUrl are *)
(* those of the TypeScript client, line by line; the two differ in what     *)
(* happens around the await of _fetchServices when the request fails.       *)
(***************************************************************************)
\* The message of the error axios rejects with when the registry is down.
ConnectionRefused == "connect ECONNREFUSED 127.0.0.1:3000"

\* The request of _fetchServices fails.  Neither _fetchServices nor
\* getServiceUrl has a try block, so the rejection of httpClient.get leaves
\* both of them.
FetchRejectsLevel1(call) ==
    /\ call \in BagToSet(fetching)
    /\ fetching' = fetching (-) SetToBag({call})
    /\ resolved' = Resolved(call.serviceName, "none", "error", ConnectionRefused)
    /\ UNCHANGED <<clientNow, options, serviceCache, registrationVars>>
    /\ UNCHANGED <<breakerVars, registryVars, orchestratorVars>>

NextLevel1Client ==
    \/ ClientTick
    \/ \E serviceName \in PeerNames : getServiceUrl(serviceName)
    \/ \E call \in BagToSet(fetching) :
          \E freshServices \in RegistryAnswers(call.serviceName) :
              FetchResolves(call, freshServices)
    \/ \E call \in BagToSet(fetching) : FetchRejectsLevel1(call)

SpecLevel1Client == InitClient /\ [][NextLevel1Client]_vars

\* C34: when the request to the registry of a getServiceUrl call of the
\* Level 1 client fails and the call had read an expired cache entry with
\* instances, the call returns the URL of one of these instances.
C34_Level1StaleEntryServedOnFailure ==
    [][\A call \in BagToSet(fetching) :
        (Len(call.cachedServices) > 0 /\ FetchRejectsLevel1(call))
            => /\ resolved'.kind = "value"
               /\ resolved'.value \in UrlsOf(call.cachedServices)]_vars

\* The heartbeat requests on their way.
HeartbeatsInFlight(inFlight) ==
    BagCardinality(inFlight)
        - BagCardinality(inFlight (-) SetToBag(
              {c \in BagToSet(inFlight) : c.operation = "heartbeat"}))

\* C35: after every step an interval is running exactly when the client is
\* registered (isRegistered true and currentService set), no more than one
\* interval is running and it is the one heartbeatTimer holds; and a step
\* sends a heartbeat request only when the client is registered after it, so
\* none is sent from the cleanup of unregister to the next register that
\* succeeds.
C35_OneTimerIffRegistered ==
    [][/\ (timers' # EmptyBag) <=> (isRegistered' /\ Len(currentService') = 1)
       /\ BagCardinality(timers') <= 1
       /\ timers' = SetToBag({heartbeatTimer'[i] : i \in 1..Len(heartbeatTimer')})
       /\ HeartbeatsInFlight(requests') > HeartbeatsInFlight(requests)
           => isRegistered' /\ Len(currentService') = 1]_vars

\* The client registered twice: the heartbeat of the first registration,
\* with the interval the registry chose then, is still on its way, and one
\* interval is running, with the period of the second registration.
C35_Witness ==
    /\ isRegistered
    /\ Len(currentService) = 1
    /\ currentService[1].heartbeatInterval = 30
    /\ \E c \in BagToSet(requests) :
          c.operation = "heartbeat" /\ c.heartbeatInterval = 1
    /\ BagCardinality(timers) = 1
    /\ \E timer \in BagToSet(timers) : timer.period = 30000

\* ------------------------------------------- a client's life at the registry
\* The requests of the client's own registration reach the real registry.
\* POST /register is handled and register receives the response.
Registers(call) ==
    /\ call.operation = "register"
    /\ PostRegisterBody(ClientIp, [name |-> call.name, port |-> call.port,
                                   heartbeatInterval |-> <<call.heartbeatInterval>>])
    /\ RegisterResolvesBody(call, handled'.body)
    /\ UNCHANGED <<breakerVars, orchestratorVars>>

\* POST /heartbeat is handled and _sendHeartbeat receives the response.
Heartbeats(call) ==
    /\ call.operation = "heartbeat"
    /\ PostHeartbeatBody(ClientIp, [name |-> call.name, port |-> call.port,
                                    heartbeatInterval |-> <<call.heartbeatInterval>>])
    /\ HeartbeatResolvesBody(call)
    /\ UNCHANGED <<breakerVars, orchestratorVars>>

\* DELETE /services/:name/:port is handled and unregister receives the
\* response; axios rejects when the status is 404.
Unregisters(call) ==
    /\ call.operation = "unregister"
    /\ DeleteServiceBody(ClientIp, call.name, call.port)
    /\ IF handled'.status = 200 THEN UnregisterResolvesBody(call)
       ELSE UnregisterRejectsBody(call)
    /\ UNCHANGED <<breakerVars, orchestratorVars>>

\* A registry without instances and a client whose application asked for a
\* heartbeat every second.
InitLifecycle ==
    /\ BreakersAbsent
    /\ OrchestratorAbsent
    /\ registryNow = 0
    /\ services = <<>>
    /\ registrants = {Process(r.serviceName, ClientIp, r.servicePort) :
                          r \in Registrations}
    /\ handled = NothingHandled
    /\ kept = <<>>
    /\ clientNow = 0
    /\ options = [defaultHeartbeatInterval |-> 1, cacheMultiplier |-> 2,
                  requestTimeout |-> 5000]
    /\ serviceCache = <<>>
    /\ fetching = EmptyBag
    /\ resolved = NothingResolved
    /\ NeverRegistered

NextLifecycle ==
    \/ WallClockTick
    \/ \E r \in Registrations : register(r.serviceName, r.servicePort)
    \/ \E call \in BagToSet(requests) : Registers(call)
    \/ \E call \in BagToSet(requests) : RegisterRejects(call)
    \/ \E timer \in BagToSet(timers) : TimerFires(timer)
    \/ \E call \in BagToSet(requests) : Heartbeats(call)
    \/ \E call \in BagToSet(requests) : HeartbeatRejects(call)
    \/ unregister
    \/ \E call \in BagToSet(requests) : Unregisters(call)
    \/ \E call \in BagToSet(requests) : UnregisterRejects(call)

SpecLifecycle == InitLifecycle /\ [][NextLifecycle]_vars

\* C36: from the moment unregister has completed with a successful DELETE,
\* the store holds no entry of the instance after any step that is not the
\* completion of a later register, a heartbeat that arrives late included.
C36_UnregisteredInstanceStaysAbsent ==
    [][(/\ settled = Settled("unregister", "value", "Service unregistered")
        /\ settled'.operation # "register")
       => \A r \in Registrations :
              createServiceId(r.serviceName, ClientIp, r.servicePort)
                  \notin StoredIds(services')]_vars

\* C37: under any interleaving of concurrent calls on one breaker, the step
\* in which a call of the original method completes successfully leaves the
\* breaker not open and with an empty failure list, and a call made right
\* after it finds the breaker not open and invokes the original method.
C37_SuccessLeavesBreakerClosed ==
    [][\A c \in BagToSet(pending) :
        OriginalMethodResolves(c)
            => /\ ~breakers'[c.breaker].isCircuitCurrentlyOpen
               /\ breakers'[c.breaker].failureTimestampsWithinWindow = <<>>
               /\ ~AfterRecoveryCheck(breakers'[c.breaker],
                                      configuration[c.breaker],
                                      now).isCircuitCurrentlyOpen]_vars

\* C38: a getServiceUrl call that had read an entry and was awaiting the
\* registry when the cache was cleared (the cache is empty while the call
\* holds the instances of the entry) leaves the cache empty when it ends and
\* does not return the URL of an instance of the cleared entry as stale.
C38_ClearedCacheStaysEmpty ==
    [][\A call \in BagToSet(fetching) :
        (/\ serviceCache = <<>>
         /\ Len(call.cachedServices) > 0
         /\ \/ FetchRejects(call)
            \/ \E freshServices \in RegistryAnswers(call.serviceName) :
                   FetchResolves(call, freshServices))
        => /\ serviceCache' = <<>>
           /\ resolved'.via # "stale"]_vars

\* The instance of p is stored and fails the liveness predicate now.
StoredButDead(p) ==
    LET id == createServiceId(p.name, p.ip, p.port)
    IN  /\ has(GroupOf(services, p.name), id)
        /\ ~WithinWindow(get(GroupOf(services, p.name), id), registryNow)

maxAttempts == 10
InitialDelay == 500

\* The services start() spawns after the discovery server.
SpawnedServices == {"user-service", "order-service", "api-gateway"}

Child(name, port) == [name |-> name, port |-> port]

spawnServiceDiscoveryServer(children) ==
    Append(children, Child("service-discovery", 3000))

\* "Spawn 3 instances of a service"
spawnService(children, serviceName, basePort) ==
    children \o [i \in 1..3 |-> Child(serviceName, basePort + (i - 1))]

spawnSingleService(children, serviceName, port) ==
    Append(children, Child(serviceName, port))

\* Mutant: the loop runs while attempts <= maxAttempts.
LoopContinues_OneMore(n) == n <= maxAttempts

\* while (attempts < maxAttempts)
LoopContinues(n) == n < maxAttempts

\* shutdown(): SIGTERM to every child, then process.exit(0).
shutdown ==
    /\ killed' = processes
    /\ position' = "exited"
    /\ discoveryServer' = IF discoveryServer \in {"starting", "listening"}
                          THEN "terminated" ELSE discoveryServer

\* start() up to the await of the first probe.
start ==
    /\ position = "main"
    /\ processes' = spawnServiceDiscoveryServer(processes)
    /\ discoveryServer' = "starting"
    /\ attempts' = 0
    /\ delay' = InitialDelay
    /\ position' = IF LoopContinues(0) THEN "probing" ELSE "waiting"
    /\ UNCHANGED <<isReady, probes, killed>>
    /\ UNCHANGED <<breakerVars, registryVars, clientVars>>

\* The discovery server has come to listen on port 3000.
ServerListens ==
    /\ discoveryServer = "starting"
    /\ discoveryServer' = "listening"
    /\ UNCHANGED <<position, attempts, delay, isReady, processes, probes, killed>>
    /\ UNCHANGED <<breakerVars, registryVars, clientVars>>

\* The discovery server has ended by itself.
ServerCrashes ==
    /\ discoveryServer \in {"starting", "listening"}
    /\ discoveryServer' = "crashed"
    /\ UNCHANGED <<position, attempts, delay, isReady, processes, probes, killed>>
    /\ UNCHANGED <<breakerVars, registryVars, clientVars>>

\* axios.get resolves: waitForServiceDiscovery returns true, and start goes
\* on to spawn the user service and to wait two seconds.
ProbeSucceeds ==
    /\ position = "probing"
    /\ discoveryServer = "listening"
    /\ probes' = Append(probes, "ok")
    /\ isReady' = "true"
    /\ processes' = spawnService(processes, "user-service", 4000)
    /\ position' = "usersSpawned"
    /\ UNCHANGED <<attempts, delay, discoveryServer, killed>>
    /\ UNCHANGED <<breakerVars, registryVars, clientVars>>

\* axios.get rejects, refused or after the timeout of two seconds: the catch
\* block up to the await of the delay.
ProbeFails ==
    /\ position = "probing"
    /\ probes' = Append(probes, "failed")
    /\ attempts' = attempts + 1
    /\ position' = "waiting"
    /\ UNCHANGED <<delay, isReady, processes, discoveryServer, killed>>
    /\ UNCHANGED <<breakerVars, registryVars, clientVars>>

\* The delay is over: the next probe, or the end of the loop, after which
\* waitForServiceDiscovery returns false and start calls shutdown.
DelayElapses ==
    /\ position = "waiting"
    /\ delay' = delay * 2
    /\ IF LoopContinues(attempts)
       THEN /\ position' = "probing"
            /\ UNCHANGED <<isReady, discoveryServer, killed>>
       ELSE /\ isReady' = "false"
            /\ shutdown
    /\ UNCHANGED <<attempts, processes, probes>>
    /\ UNCHANGED <<breakerVars, registryVars, clientVars>>

\* The two seconds after the user service are over.
SpawnOrders ==
    /\ position = "usersSpawned"
    /\ processes' = spawnService(processes, "order-service", 5000)
    /\ position' = "ordersSpawned"
    /\ UNCHANGED <<attempts, delay, isReady, discoveryServer, probes, killed>>
    /\ UNCHANGED <<breakerVars, registryVars, clientVars>>

\* The two seconds after the order service are over.
SpawnGateway ==
    /\ position = "ordersSpawned"
    /\ processes' = spawnSingleService(processes, "api-gateway", 8000)
    /\ position' = "started"
    /\ UNCHANGED <<attempts, delay, isReady, discoveryServer, probes, killed>>
    /\ UNCHANGED <<breakerVars, registryVars, clientVars>>

\* SIGTERM or SIGINT reaches the orchestrator between two callbacks.
Signal ==
    /\ position \notin {"absent", "main", "exited"}
    /\ shutdown
    /\ UNCHANGED <<attempts, delay, isReady, processes, probes>>
    /\ UNCHANGED <<breakerVars, registryVars, clientVars>>

\* main() after new MicroservicesOrchestrator().
InitOrchestrator ==
    /\ BreakersAbsent
    /\ RegistryAbsent
    /\ ClientAbsent
    /\ position = "main"
    /\ attempts = 0
    /\ delay = 0
    /\ isReady = "pending"
    /\ processes = <<>>
    /\ discoveryServer = "absent"
    /\ probes = <<>>
    /\ killed = <<>>

NextOrchestrator ==
    \/ start
    \/ ServerListens
    \/ ServerCrashes
    \/ ProbeSucceeds
    \/ ProbeFails
    \/ DelayElapses
    \/ SpawnOrders
    \/ SpawnGateway
    \/ Signal

\* The request of a probe ends, by its timeout at the latest, and a timer
\* that was set fires.
SpecOrchestrator ==
    /\ InitOrchestrator
    /\ [][NextOrchestrator]_vars
    /\ WF_vars(start)
    /\ WF_vars(ProbeSucceeds \/ ProbeFails)
    /\ WF_vars(DelayElapses)

\* Every probe of the list failed.
AllFailed(outcomes) == \A i \in 1..Len(outcomes) : outcomes[i] = "failed"

ServiceSpawned ==
    \E i \in 1..Len(processes) : processes[i].name \in SpawnedServices

ReadinessGatesSpawning ==
    /\ ServiceSpawned => isReady = "true"
    /\ isReady = "true"
           => /\ Len(probes) >= 1
              /\ probes[Len(probes)] = "ok"
              /\ AllFailed(SubSeq(probes, 1, Len(probes) - 1))
    /\ isReady = "pending" => AllFailed(probes)
    /\ isReady = "false"
           => /\ Len(probes) = 10
              /\ AllFailed(probes)
              /\ processes = <<Child("service-discovery", 3000)>>
              /\ position = "exited"
              /\ killed = processes

\* C40: a user-service, order-service or api-gateway process exists only
\* after a probe succeeded; waitForServiceDiscovery ends, or the orchestrator
\* is shut down by a signal; it returns true at the first probe that
\* succeeds and false after exactly 10 probes that all failed; and when it
\* returned false only the discovery server was spawned, shutdown has sent
\* SIGTERM to it and the orchestrator has exited.
C40_SpawnsOnlyAfterReadiness ==
    /\ []ReadinessGatesSpawning
    /\ <>(isReady # "pending" \/ position = "exited")

\* waitForServiceDiscovery returned false after the tenth failed probe and
\* start has shut the orchestrator down.
C40_Witness ==
    /\ isReady = "false"
    /\ attempts = maxAttempts
    /\ position = "exited"
    /\ killed = <<Child("service-discovery", 3000)>>
====
